---- MODULE Spec2Model ----
(***************************************************************************)
(* Cell-centred Lagrangian hydrodynamics (Maire nodal solver) of FleCSALE: *)
(* the tasks of apps/maire_hydro/tasks.h over a Burton mesh.               *)
(*                                                                         *)
(* real_t values are modelled as exact rationals <<n, d>> in lowest terms  *)
(* with d > 0; <<0, 0>> is the not-a-number produced by a division by      *)
(* zero, and it propagates through every operation.  vector_t is a         *)
(* sequence of dims rationals, matrix_t a sequence of rows.                *)
(***************************************************************************)
EXTENDS Integers, Sequences, FiniteSets, TLC

(***************************************************************************)
(* Bounds of the model.                                                    *)
(***************************************************************************)
\* number of cells of the one-dimensional mesh
NumCells == 2
\* number of time steps the driver takes (step_max)
MaxSteps == 1
\* precision of std::sqrt: a root that is not rational is rounded up to a
\* multiple of 1/SqrtDen
SqrtDen == 2
\* numerators and denominators stay below MaxInt: a run is followed as long
\* as every value it computes is representable
MaxInt == 1000000000
MaxMoves == 2
\* the steps of a run of the output cadence
MaxOutputSteps == 4

(***************************************************************************)
(* Rational arithmetic (real_t).                                           *)
(***************************************************************************)
Abs(i) == IF i < 0 THEN -i ELSE i

RECURSIVE Gcd(_, _)
Gcd(a, b) == IF b = 0 THEN a ELSE Gcd(b, a % b)

\* a value is <<n, d>>: d > 0 is the rational n/d in lowest terms, <<1, 0>>
\* and <<-1, 0>> are the infinities, <<0, 0>> is not-a-number, and Huge
\* stands for a value that is not representable within MaxInt
NaN == <<0, 0>>
Inf == <<1, 0>>
Huge == <<0, -1>>

IsNaN(q) == q = NaN
IsHuge(q) == q[2] < 0
IsFinite(q) == q[2] > 0
Sgn(i) == IF i < 0 THEN -1 ELSE IF i > 0 THEN 1 ELSE 0

\* the product i * j is representable
Fits(i, j) == i = 0 \/ j = 0 \/ Abs(i) <= MaxInt \div Abs(j)

\* n/d with d > 0, reduced by the common factor g
Reduce(n, d, g) == <<n \div g, d \div g>>
RNorm(q) ==
  IF q[2] = 0 THEN <<Sgn(q[1]), 0>>
  ELSE IF q[2] < 0 THEN Reduce(-q[1], -q[2], Gcd(Abs(q[1]), -q[2]))
  ELSE Reduce(q[1], q[2], Gcd(Abs(q[1]), q[2]))

R(i) == <<i, 1>>
Frac(n, d) == RNorm(<<n, d>>)
Zero == R(0)
One == R(1)
Half == Frac(1, 2)

\* the operations reduce by common factors before they multiply: g is the
\* common factor of the denominators of the finite values a and b
AddOver(a, b, g) ==
  IF Fits(a[1], b[2] \div g) /\ Fits(b[1], a[2] \div g) /\ Fits(a[2] \div g, b[2])
  THEN RNorm(<<a[1] * (b[2] \div g) + b[1] * (a[2] \div g), (a[2] \div g) * b[2]>>)
  ELSE Huge
RAdd(a, b) ==
  IF IsHuge(a) \/ IsHuge(b) THEN Huge
  ELSE IF a[2] = 0 /\ b[2] = 0 THEN (IF a = b THEN a ELSE NaN)
  ELSE IF a[2] = 0 THEN a
  ELSE IF b[2] = 0 THEN b
  ELSE AddOver(a, b, Gcd(a[2], b[2]))
RNeg(a) == IF IsHuge(a) THEN Huge ELSE <<-a[1], a[2]>>
RSub(a, b) == RAdd(a, RNeg(b))
\* g and h are the common factors across the two fractions
MulOver(a, b, g, h) ==
  IF Fits(a[1] \div g, b[1] \div h) /\ Fits(a[2] \div h, b[2] \div g)
  THEN <<(a[1] \div g) * (b[1] \div h), (a[2] \div h) * (b[2] \div g)>>
  ELSE Huge
RMul(a, b) ==
  IF IsHuge(a) \/ IsHuge(b) THEN Huge
  ELSE IF a[2] = 0 \/ b[2] = 0 THEN <<Sgn(a[1]) * Sgn(b[1]), 0>>
  ELSE MulOver(a, b, Gcd(Abs(a[1]), b[2]), Gcd(Abs(b[1]), a[2]))
RInv(b) == IF b[1] < 0 THEN <<-b[2], -b[1]>> ELSE <<b[2], b[1]>>
RDiv(a, b) ==
  IF IsHuge(a) \/ IsHuge(b) THEN Huge
  ELSE IF a[2] = 0 /\ b[2] = 0 THEN NaN
  ELSE IF b = Zero THEN <<Sgn(a[1]), 0>>
  ELSE RMul(a, RInv(b))
RAbs(a) == IF IsHuge(a) THEN Huge ELSE <<Abs(a[1]), a[2]>>

\* a and b can be compared within MaxInt
ComparableOver(a, b, g) == Fits(a[1], b[2] \div g) /\ Fits(b[1], a[2] \div g)
Comparable(a, b) ==
  /\ ~IsHuge(a) /\ ~IsHuge(b)
  /\ (a[2] = 0 \/ b[2] = 0 \/ ComparableOver(a, b, Gcd(a[2], b[2])))
LtOver(a, b, g) ==
  ComparableOver(a, b, g) /\ a[1] * (b[2] \div g) < b[1] * (a[2] \div g)
\* comparisons with not-a-number are false
RLt(a, b) ==
  /\ ~IsHuge(a) /\ ~IsHuge(b)
  /\ ~IsNaN(a) /\ ~IsNaN(b) /\ a # b
  /\ IF a[2] = 0 \/ b[2] = 0 THEN a[1] * b[2] < b[1] * a[2]
     ELSE LtOver(a, b, Gcd(a[2], b[2]))
RLe(a, b) == ~IsNaN(a) /\ ~IsNaN(b) /\ (a = b \/ RLt(a, b))
\* std::max(a, b) is (a < b) ? b : a, std::min(a, b) is (b < a) ? b : a
RMax(a, b) == IF ~Comparable(a, b) THEN Huge ELSE IF RLt(a, b) THEN b ELSE a
RMin(a, b) == IF ~Comparable(a, b) THEN Huge ELSE IF RLt(b, a) THEN b ELSE a

(***************************************************************************)
(* std::sqrt: exact when the root is rational, rounded up to the precision *)
(* of the model otherwise; not-a-number for a negative argument.           *)
(***************************************************************************)
\* the smallest k in lo..hi with k * k >= m (hi when there is none)
RECURSIVE Bisect(_, _, _)
Bisect(lo, hi, m) ==
  IF lo >= hi THEN hi
  ELSE LET mid == (lo + hi) \div 2
       IN  IF mid * mid >= m THEN Bisect(lo, mid, m) ELSE Bisect(mid + 1, hi, m)

CeilSqrt(m) == Bisect(0, 46340, m)

\* the least multiple of 1/SqrtDen whose square is at least t / SqrtDen^2
RoundedRoot(t) ==
  IF IsHuge(t) THEN Huge
  ELSE Frac(CeilSqrt((t[1] + t[2] - 1) \div t[2]), SqrtDen)

\* r1 and r2 are the rounded roots of the numerator and the denominator
SqrtOver(q, r1, r2) ==
  IF r1 * r1 = q[1] /\ r2 * r2 = q[2] THEN <<r1, r2>>
  ELSE RoundedRoot(RMul(q, R(SqrtDen * SqrtDen)))

sqrt(q) ==
  IF IsHuge(q) THEN Huge
  ELSE IF IsNaN(q) \/ q[1] < 0 THEN NaN
  ELSE IF q[2] = 0 THEN Inf
  ELSE SqrtOver(q, CeilSqrt(q[1]), CeilSqrt(q[2]))

(***************************************************************************)
(* Vectors and matrices (math::vector, math::matrix).                      *)
(***************************************************************************)
RECURSIVE RSum(_)
RSum(s) == IF s = <<>> THEN Zero ELSE RAdd(s[1], RSum(Tail(s)))

\* a sequence given by its elements, each computed once
Tuple(f) == f \o <<>>

ZeroVec(n) == [d \in 1..n |-> Zero]
ZeroMat(n) == [i \in 1..n |-> ZeroVec(n)]
VAdd(a, b) == Tuple([d \in 1..Len(a) |-> RAdd(a[d], b[d])])
VSub(a, b) == Tuple([d \in 1..Len(a) |-> RSub(a[d], b[d])])
VScale(f, a) == Tuple([d \in 1..Len(a) |-> RMul(f, a[d])])
dot_product(a, b) == RSum([d \in 1..Len(a) |-> RMul(a[d], b[d])])
MAdd(A, B) == Tuple([i \in 1..Len(A) |-> VAdd(A[i], B[i])])
MatVec(A, x) == Tuple([i \in 1..Len(A) |-> dot_product(A[i], x)])
VecFinite(a) == \A d \in 1..Len(a) : IsFinite(a[d])
VecExact(a) == \A d \in 1..Len(a) : ~IsHuge(a[d])
MatExact(A) == \A i \in 1..Len(A) : VecExact(A[i])

\* mat(i,j) += fact * a[i] * b[j]
outer_product(a, b, mat, fact) ==
  Tuple([i \in 1..Len(a) |-> Tuple([j \in 1..Len(b) |->
      RAdd(mat[i][j], RMul(fact, RMul(a[i], b[j])))])])

\* y += A * x
ax_plus_y(A, x, y) == VAdd(y, MatVec(A, x))

RECURSIVE VSum(_, _)
VSum(s, n) == IF s = <<>> THEN ZeroVec(n) ELSE VAdd(s[1], VSum(Tail(s), n))

RECURSIVE MSum(_, _)
MSum(s, n) == IF s = <<>> THEN ZeroMat(n) ELSE MAdd(s[1], MSum(Tail(s), n))

(***************************************************************************)
(* Direct solution of the n x n system A x = b by Gauss-Jordan elimination *)
(* in exact arithmetic; Singular when A has no inverse.                    *)
(***************************************************************************)
Singular == <<>>

\* rows are augmented: row i is A[i] \o <<b[i]>>
\* rows p and k are swapped, the pivot row prow takes place k and clears
\* column k of the other rows
ClearColumn(rows, k, n, p, prow) ==
  Tuple([i \in 1..n |->
     IF i = k THEN prow
     ELSE Tuple([j \in 1..(n + 1) |->
             RSub(rows[IF i = p THEN k ELSE i][j],
                  RMul(rows[IF i = p THEN k ELSE i][k], prow[j]))])])

\* the first row at or below k with an entry in column k, 0 if there is none
PivotRow(rows, k, n) ==
  IF \A i \in k..n : rows[i][k] = Zero THEN 0
  ELSE CHOOSE i \in k..n :
         rows[i][k] # Zero /\ \A j \in k..(i - 1) : rows[j][k] = Zero

RECURSIVE Eliminate(_, _, _)
EliminateAt(rows, k, n, p) ==
  IF p = 0 THEN Singular
  ELSE Eliminate(ClearColumn(rows, k, n, p,
                   Tuple([j \in 1..(n + 1) |-> RDiv(rows[p][j], rows[p][k])])),
                 k + 1, n)

Eliminate(rows, k, n) ==
  IF k > n THEN Tuple([i \in 1..n |-> rows[i][n + 1]])
  ELSE EliminateAt(rows, k, n, PivotRow(rows, k, n))

LinSolve(A, b) ==
  LET n == Len(A)
  IN  Eliminate(Tuple([i \in 1..n |-> A[i] \o <<b[i]>>]), 1, n)

(***************************************************************************)
(* Topology store.  A mesh is a record: dims, the entity sets, the vertex  *)
(* ring and the faces of every cell, and the corner and wedge tables.      *)
(* Corner k is corners[k] = [cell, vert]; wedge k is wedges[k] =           *)
(* [corner, cell, vert, face].                                             *)
(***************************************************************************)
\* the ascending sequence of the elements of a finite set of integers
RECURSIVE SetToSeq(_)
SetToSeq(S) ==
  IF S = {} THEN <<>>
  ELSE LET m == CHOOSE a \in S : \A b \in S : a <= b
       IN  <<m>> \o SetToSeq(S \ {m})

\* a line of n cells: cell c joins vertices c and c+1, the faces are the
\* vertices, every corner owns one wedge
LineMesh(n) ==
  LET cn == [k \in 1..(2 * n) |->
               [cell |-> (k + 1) \div 2, vert |-> ((k + 1) \div 2) + ((k + 1) % 2)]]
  IN  [dims |-> 1,
       cells |-> 1..n,
       verts |-> 1..(n + 1),
       faces |-> 1..(n + 1),
       cell_verts |-> [c \in 1..n |-> <<c, c + 1>>],
       cell_faces |-> [c \in 1..n |-> <<c, c + 1>>],
       corners |-> cn,
       wedges |-> [k \in 1..(2 * n) |->
                     [corner |-> k, cell |-> cn[k].cell, vert |-> cn[k].vert,
                      face |-> cn[k].vert]]]

\* burton_quadrilateral_t<2>::create_entities: edge i of a quadrilateral
\* joins ring vertices i and i+1 (mod 4)
create_entities(v) ==
  [i \in 1..4 |-> <<v[i], v[(i % 4) + 1]>>]

\* a variant in which corner i takes edge i+1 for its second edge
create_bound_entities_next(v, e) ==
  [i \in 1..4 |-> <<v[i], e[i], e[(i % 4) + 1]>>]

\* burton_quadrilateral_t<2>::create_bound_entities, case corners: corner i
\* is vertex i, edge i and edge i-1 (mod 4)
create_bound_entities(v, e) ==
  [i \in 1..4 |-> <<v[i], e[i], e[((i + 2) % 4) + 1]>>]

\* two quadrilaterals side by side
\*    v4----f3----v5----f7----v6
\*    |           |           |
\*    f4   c1     f2    c2    f6
\*    |           |           |
\*    v1----f1----v2----f5----v3
QuadRings == <<<<1, 2, 5, 4>>, <<2, 3, 6, 5>>>>
QuadCellFaces == <<<<1, 2, 3, 4>>, <<5, 6, 7, 2>>>>

QuadMesh ==
  LET bound == [c \in 1..2 |-> create_bound_entities(QuadRings[c], QuadCellFaces[c])]
      cn == [k \in 1..8 |->
               [cell |-> ((k - 1) \div 4) + 1,
                vert |-> bound[((k - 1) \div 4) + 1][((k - 1) % 4) + 1][1]]]
  IN  [dims |-> 2,
       cells |-> 1..2,
       verts |-> 1..6,
       faces |-> 1..7,
       cell_verts |-> QuadRings,
       cell_faces |-> QuadCellFaces,
       corners |-> cn,
       wedges |-> [k \in 1..16 |->
                     LET c == (k + 1) \div 2
                     IN  [corner |-> c, cell |-> cn[c].cell, vert |-> cn[c].vert,
                          face |-> bound[cn[c].cell][((c - 1) % 4) + 1][2 + ((k + 1) % 2)]]]]

(***************************************************************************)
(* State.                                                                  *)
(***************************************************************************)
VARIABLES
  mesh,                   \* the topology (immutable after construction)
  face_tags,              \* face -> set of boundary tags
  boundary_map,           \* tag -> boundary condition
  ics,                    \* the initial conditions function
  gamma,                  \* the ideal gas constant of the eos
  cfl,                    \* time_constants_t
  final_time,
  coordinates,            \* vertex -> point
  cell_volume, cell_centroid, cell_min_length,
  wedge_facet_normal, wedge_facet_area, wedge_facet_centroid,
  cell_mass, cell_pressure, cell_velocity, cell_density,
  cell_internal_energy, cell_sound_speed,
  node_velocity, corner_matrix, corner_normal, cell_residual,
  cell_velocity0, cell_internal_energy0, node_coordinates,
  time_step, soln_time, time_step_counter, limit_string,
  pc,                     \* position of the driver in its task sequence
  visited,                \* the entities whose iteration of the running loop is done
  file,                   \* the input file given to inputs_t::load
  inputs,                 \* the static members of inputs_t
  files,                  \* the names of the files written by the writer
  log,                    \* the diagnostics printed so far
  element,                \* a mesh element: its points, edges and corners
  measured,               \* the geometric quantities computed for the element
  err                     \* "none", or the fatal error that ended the run

configVars == <<mesh, face_tags, boundary_map, ics, gamma, cfl, final_time>>
geomVars == <<cell_centroid, cell_min_length, wedge_facet_normal,
              wedge_facet_area, wedge_facet_centroid>>
stateVars == <<cell_mass, cell_pressure, cell_velocity, cell_density,
               cell_internal_energy, cell_sound_speed>>
cornerVars == <<corner_matrix, corner_normal>>
savedVars == <<cell_velocity0, cell_internal_energy0, node_coordinates>>
timeVars == <<time_step, soln_time, time_step_counter, limit_string>>
solverVars == <<configVars, coordinates, cell_volume, geomVars, stateVars,
                node_velocity, cornerVars, cell_residual, savedVars, timeVars>>
auxVars == <<file, inputs, files, log, element, measured>>

vars == <<configVars, coordinates, cell_volume, geomVars, stateVars,
          node_velocity, cornerVars, cell_residual, savedVars, timeVars,
          pc, visited, auxVars, err>>

(***************************************************************************)
(* Topology queries.                                                       *)
(***************************************************************************)
dims == mesh.dims
Cells == mesh.cells
Vertices == mesh.verts
Corners == DOMAIN mesh.corners
Wedges == DOMAIN mesh.wedges

\* mesh.corners(vt), mesh.corners(cl), mesh.wedges(cn), mesh.wedges(vt)
corners_of_vertex(v) == SetToSeq({k \in Corners : mesh.corners[k].vert = v})
corners_of_cell(c) == SetToSeq({k \in Corners : mesh.corners[k].cell = c})
wedges_of_corner(cn) == SetToSeq({w \in Wedges : mesh.wedges[w].corner = cn})
wedges_of_vertex(v) == SetToSeq({w \in Wedges : mesh.wedges[w].vert = v})

\* the faces with a single cell: the only ones that carry boundary tags
FaceCells(m, f) ==
  {c \in m.cells : \E i \in DOMAIN m.cell_faces[c] : m.cell_faces[c][i] = f}
BoundaryFaces(m) == {f \in m.faces : Cardinality(FaceCells(m, f)) = 1}

\* f->tags(), vt->tags(): ascending tag order; a vertex carries the tags of
\* its faces
tags_of_face(f) == SetToSeq(face_tags[f])
VertexTagSet(v) ==
  UNION {face_tags[mesh.wedges[w].face] : w \in {k \in Wedges : mesh.wedges[k].vert = v}}
tags_of_vertex(v) == SetToSeq(VertexTagSet(v))

\* is_boundary(): the tag set is not empty
vertex_is_boundary(v) == VertexTagSet(v) # {}
wedge_is_boundary(w) == face_tags[mesh.wedges[w].face] # {}
filter_boundary(ws) == SelectSeq(ws, wedge_is_boundary)

(***************************************************************************)
(* Geometry kernels and the geometric cache.                               *)
(***************************************************************************)
sqr(a) == RMul(a, a)

\* squared distance of two points
Dist2(a, b) == dot_product(VSub(a, b), VSub(a, b))

\* burton_2d_edge_t::length() of the edge joining points a and b
length(a, b) == sqrt(RAdd(sqr(RSub(a[1], b[1])), sqr(RSub(a[2], b[2]))))

\* burton_2d_edge_t::midpoint() and burton_3d_edge_t::midpoint()
midpoint(a, b) == VScale(Half, VAdd(a, b))

\* burton_2d_edge_t::centroid() and burton_2d_edge_t::area()
edge_centroid(a, b) == midpoint(a, b)
edge_area(a, b) == length(a, b)

\* burton_3d_edge_t::length() of the edge joining points a and b
length_3d(a, b) == sqrt(RAdd(sqr(RSub(a[1], b[1])), sqr(RSub(a[2], b[2]))))

\* math::abs of a vector: its magnitude
abs(delta) == sqrt(dot_product(delta, delta))

\* the ring endpoints <<a, b>> of face f in cell c: edge i runs from ring
\* vertex i to ring vertex i+1
FaceEnds(m, c, f) ==
  LET i == CHOOSE k \in DOMAIN m.cell_faces[c] : m.cell_faces[c][k] = f
      n == Len(m.cell_verts[c])
  IN  <<m.cell_verts[c][i], m.cell_verts[c][(i % n) + 1]>>

\* wedge facet: in one dimension the vertex itself, with unit area and the
\* normal pointing out of the cell; in two dimensions the half of the edge
\* that ends in the wedge's vertex, with the outward normal of the edge
FacetArea(m, X, w) ==
  IF m.dims = 1 THEN One
  ELSE LET e == FaceEnds(m, m.wedges[w].cell, m.wedges[w].face)
       IN  RMul(Half, length(X[e[1]], X[e[2]]))

\* burton_2d_edge_t::normal() over its length: the edge from a to b turned
\* clockwise, of unit length
UnitNormal(d, l) == <<RDiv(d[2], l), RDiv(RNeg(d[1]), l)>>
EdgeNormal(a, b) == UnitNormal(VSub(b, a), length(a, b))

FacetNormal(m, X, w) ==
  IF m.dims = 1
  THEN <<IF m.wedges[w].vert = m.cell_verts[m.wedges[w].cell][2]
         THEN One ELSE RNeg(One)>>
  ELSE EdgeNormal(X[FaceEnds(m, m.wedges[w].cell, m.wedges[w].face)[1]],
                  X[FaceEnds(m, m.wedges[w].cell, m.wedges[w].face)[2]])

FacetCentroid(m, X, w) ==
  IF m.dims = 1 THEN X[m.wedges[w].vert]
  ELSE LET e == FaceEnds(m, m.wedges[w].cell, m.wedges[w].face)
       IN  midpoint(X[m.wedges[w].vert], midpoint(X[e[1]], X[e[2]]))

\* cell->volume(): the length of a segment, the area of a polygon
Volume(m, X, c) ==
  LET vs == m.cell_verts[c]
      n == Len(vs)
  IN  IF m.dims = 1 THEN RSub(X[vs[2]][1], X[vs[1]][1])
      ELSE RMul(Half, RSum([i \in 1..n |->
             RSub(RMul(X[vs[i]][1], X[vs[(i % n) + 1]][2]),
                  RMul(X[vs[(i % n) + 1]][1], X[vs[i]][2]))]))

Centroid(m, X, c) ==
  LET vs == m.cell_verts[c]
  IN  VScale(Frac(1, Len(vs)), VSum([i \in 1..Len(vs) |-> X[vs[i]]], m.dims))

\* burton_2d_cell_t::min_length(): seeded with the length of the first edge,
\* then the minimum over all ordered pairs of distinct vertices.  The search
\* runs on squared distances and the root is taken of the result (the root
\* is monotone).
RECURSIVE MinOver(_, _)
MinOver(s, m0) == IF s = <<>> THEN m0 ELSE MinOver(Tail(s), RMin(s[1], m0))

min_length(m, X, c) ==
  LET vs == m.cell_verts[c]
      n == Len(vs)
      seed == Dist2(X[vs[1]], X[vs[2]])
      pairs == [k \in 1..(n * n) |->
                  LET i == ((k - 1) \div n) + 1
                      j == ((k - 1) % n) + 1
                  IN  IF i = j THEN seed ELSE Dist2(X[vs[i]], X[vs[j]])]
  IN  sqrt(MinOver(pairs, seed))

\* the loop of min_length() over the ordered pairs of distinct vertices of
\* an element, started from min_length0
ElementMinLength(points, min_length0) ==
  LET n == Len(points)
  IN  MinOver([k \in 1..(n * n) |->
                 LET i == ((k - 1) \div n) + 1
                     j == ((k - 1) % n) + 1
                 IN  IF i = j THEN min_length0 ELSE abs(VSub(points[i], points[j]))],
              min_length0)

\* burton_2d_cell_t::min_length(), burton_3d_face_t::min_length() and
\* burton_3d_cell_t::min_length(): es is the list of the edges of the
\* element as pairs of vertices, the first edge is the reference
cell_2d_min_length(points, es) ==
  ElementMinLength(points, length(points[es[1][1]], points[es[1][2]]))
face_3d_min_length(points, es) ==
  ElementMinLength(points, length_3d(points[es[1][1]], points[es[1][2]]))
cell_3d_min_length(points, es) ==
  ElementMinLength(points, length_3d(points[es[1][1]], points[es[1][2]]))

(***************************************************************************)
(* Boundary conditions (boundary_condition_t): the three flags, and the    *)
(* velocity and pressure callbacks as affine functions of x and t.         *)
(***************************************************************************)
has_prescribed_velocity(b) == b.hpv
has_prescribed_pressure(b) == b.hpp
has_symmetry(b) == b.hs
velocity(b, X, t) ==
  Tuple([d \in 1..Len(X) |-> RAdd(b.u0[d], RAdd(RMul(b.ux, X[d]), RMul(b.ut, t)))])
pressure(b, X, t) == RAdd(b.p0, RAdd(RMul(b.px, X[1]), RMul(b.pt, t)))

\* the defaults of boundary_condition_t: a symmetry plane
DefaultBC(n) ==
  [hpv |-> FALSE, hpp |-> FALSE, hs |-> TRUE,
   u0 |-> ZeroVec(n), ux |-> Zero, ut |-> Zero,
   p0 |-> Zero, px |-> Zero, pt |-> Zero]
\* overrides of has_prescribed_velocity and velocity
VelocityBC(n) ==
  [DefaultBC(n) EXCEPT !.hpv = TRUE, !.u0 = [d \in 1..n |-> One],
                       !.ux = One, !.ut = One]
\* overrides of has_prescribed_pressure and pressure
PressureBC(n) ==
  [DefaultBC(n) EXCEPT !.hpp = TRUE, !.p0 = One, !.px = One, !.pt = One]
\* overrides of has_symmetry: a free boundary
FreeBC(n) == [DefaultBC(n) EXCEPT !.hs = FALSE]

\* a second prescribed velocity
FastVelocityBC(n) == [VelocityBC(n) EXCEPT !.u0 = [d \in 1..n |-> R(3)]]

Tags == {1, 2}
Conditions(n) == {DefaultBC(n), VelocityBC(n), PressureBC(n), FreeBC(n)}

(***************************************************************************)
(* Initial conditions: (density, velocity, pressure) left and right of x0. *)
(***************************************************************************)
EvalIcs(f, X, t) == IF RLt(X[1], f.x0) THEN f.left ELSE f.right

IcsChoices(n, x0) ==
  { [x0 |-> x0, left |-> <<R(2), ZeroVec(n), R(2)>>,
                 right |-> <<R(1), ZeroVec(n), R(1)>>],
    [x0 |-> x0, left |-> <<R(1), [d \in 1..n |-> One], R(1)>>,
                 right |-> <<R(1), [d \in 1..n |-> One], R(1)>>],
    [x0 |-> x0, left |-> <<R(1), [d \in 1..n |-> One], R(1)>>,
                 right |-> <<R(2), [d \in 1..n |-> RNeg(One)], R(3)>>] }

(***************************************************************************)
(* Equation of state (ideal gas): p = (gamma - 1) rho e,                   *)
(* c = sqrt(gamma p / rho).                                                *)
(***************************************************************************)
eos_pressure(d, e) == RMul(RSub(gamma, One), RMul(d, e))
eos_internal_energy(d, p) == RDiv(p, RMul(RSub(gamma, One), d))
eos_sound_speed(d, p) == sqrt(RDiv(RMul(gamma, p), d))

(***************************************************************************)
(* Equations (lagrange_eqns_t): the residual and the state updates.        *)
(***************************************************************************)
ZeroFlux(n) == [mass |-> Zero, momentum |-> ZeroVec(n), energy |-> Zero, volume |-> Zero]

\* eqns_t::compute_update: the contribution of one corner to the residual
compute_update(uv, force, npc, dudt) ==
  [mass |-> dudt.mass,
   momentum |-> VSub(dudt.momentum, force),
   energy |-> RSub(dudt.energy, dot_product(force, uv)),
   volume |-> RAdd(dudt.volume, dot_product(npc, uv))]

volumetric_rate_of_change(dudt) == dudt.volume

total_energy(e, u) == RAdd(e, RMul(Half, dot_product(u, u)))

\* eqns_t::update_state_from_flux: the new velocity and internal energy of a
\* cell of mass m
update_state_from_flux(m, u, e, dudt, fact) ==
  LET vel == VAdd(u, VScale(RDiv(fact, m), dudt.momentum))
      et == RAdd(total_energy(e, u), RMul(RDiv(fact, m), dudt.energy))
  IN  [velocity |-> vel,
       internal_energy |-> RSub(et, RMul(Half, dot_product(vel, vel)))]

(***************************************************************************)
(* Tasks (apps/maire_hydro/tasks.h).  A task changes the fields it writes  *)
(* and leaves the driver position to the driver.                           *)
(***************************************************************************)
\* the initial conditions with the density taken for the mass
initial_conditions_density ==
  /\ cell_mass' = [c \in Cells |-> EvalIcs(ics, cell_centroid[c], soln_time)[1]]
  /\ cell_velocity' = [c \in Cells |-> EvalIcs(ics, cell_centroid[c], soln_time)[2]]
  /\ cell_pressure' = [c \in Cells |-> EvalIcs(ics, cell_centroid[c], soln_time)[3]]
  /\ UNCHANGED <<configVars, coordinates, cell_volume, geomVars, cell_density,
                 cell_internal_energy, cell_sound_speed, node_velocity,
                 cornerVars, cell_residual, savedVars, timeVars, err>>

initial_conditions ==
  /\ cell_mass' = [c \in Cells |->
        RMul(EvalIcs(ics, cell_centroid[c], soln_time)[1], cell_volume[c])]
  /\ cell_velocity' = [c \in Cells |-> EvalIcs(ics, cell_centroid[c], soln_time)[2]]
  /\ cell_pressure' = [c \in Cells |-> EvalIcs(ics, cell_centroid[c], soln_time)[3]]
  /\ UNCHANGED <<configVars, coordinates, cell_volume, geomVars, cell_density,
                 cell_internal_energy, cell_sound_speed, node_velocity,
                 cornerVars, cell_residual, savedVars, timeVars, err>>

update_state_from_pressure ==
  LET d == [c \in Cells |-> RDiv(cell_mass[c], cell_volume[c])]
  IN  /\ cell_density' = d
      /\ cell_internal_energy' =
           [c \in Cells |-> eos_internal_energy(d[c], cell_pressure[c])]
      /\ cell_sound_speed' =
           [c \in Cells |-> eos_sound_speed(d[c], cell_pressure[c])]
      /\ UNCHANGED <<configVars, coordinates, cell_volume, geomVars, cell_mass,
                     cell_pressure, cell_velocity, node_velocity, cornerVars,
                     cell_residual, savedVars, timeVars, err>>

update_state_from_energy ==
  LET p == [c \in Cells |-> eos_pressure(cell_density[c], cell_internal_energy[c])]
  IN  /\ cell_pressure' = p
      /\ cell_sound_speed' = [c \in Cells |-> eos_sound_speed(cell_density[c], p[c])]
      /\ UNCHANGED <<configVars, coordinates, cell_volume, geomVars, cell_mass,
                     cell_velocity, cell_density, cell_internal_energy,
                     node_velocity, cornerVars, cell_residual, savedVars,
                     timeVars, err>>

----------------------------------------------------------------------------
\* evaluate_time_step
RECURSIVE MaxOver(_, _)
MaxOver(s, m0) == IF s = <<>> THEN m0 ELSE MaxOver(Tail(s), RMax(s[1], m0))

dt_acc_inv ==
  MaxOver([c \in 1..Cardinality(Cells) |->
             RDiv(RDiv(cell_sound_speed[c], cell_min_length[c]), cfl.accoustic)], Zero)

dt_vol_inv ==
  MaxOver([c \in 1..Cardinality(Cells) |->
             RDiv(RDiv(RAbs(volumetric_rate_of_change(cell_residual[c])),
                       cell_volume[c]), cfl.volume)], Zero)

dt_candidates ==
  <<RDiv(cfl.accoustic, dt_acc_inv), RDiv(cfl.volume, dt_vol_inv),
    RMul(cfl.growth, time_step)>>

\* the last of the smallest elements
RECURSIVE MinElementFromLast(_, _, _)
MinElementFromLast(dts, i, smallest) ==
  IF i > Len(dts) THEN smallest
  ELSE MinElementFromLast(dts, i + 1,
                          IF RLt(dts[smallest], dts[i]) THEN smallest ELSE i)

\* std::min_element: the first of the smallest elements
RECURSIVE MinElementFrom(_, _, _)
MinElementFrom(dts, i, smallest) ==
  IF i > Len(dts) THEN smallest
  ELSE MinElementFrom(dts, i + 1, IF RLt(dts[i], dts[smallest]) THEN i ELSE smallest)

\* the first element, whatever the others are
min_element_first(dts) == 1

min_element(dts) == MinElementFrom(dts, 2, 1)

\* the candidates can be compared within MaxInt
CandidatesExact(dts) ==
  \A i \in DOMAIN dts : \A j \in DOMAIN dts : Comparable(dts[i], dts[j])

LimitNames == <<"accoustic", "volume", "growth">>

\* the assertion of line 192 holds
TimeStepAssertion ==
  (IsHuge(dt_acc_inv) \/ RLt(Zero, dt_acc_inv)) /\ (IsHuge(dt_vol_inv) \/ RLt(Zero, dt_vol_inv))

\* the switch on the position of the smallest candidate, and the store of
\* the time step
ChooseTimeStep(dts, i) ==
  /\ limit_string' = IF i \in DOMAIN LimitNames THEN LimitNames[i] ELSE "unknown"
  /\ err' = IF i \in DOMAIN LimitNames THEN err
            ELSE "could not determine time step limit"
  /\ time_step' = IF i \notin DOMAIN LimitNames THEN time_step
                  ELSE IF CandidatesExact(dts) THEN dts[i] ELSE Huge

\* A failing assertion aborts a debug build; a release build goes on.
evaluate_time_step ==
  /\ \E aborts \in (IF TimeStepAssertion THEN {FALSE} ELSE {FALSE, TRUE}) :
       IF aborts
       THEN err' = "assert" /\ UNCHANGED <<time_step, limit_string>>
       ELSE ChooseTimeStep(dt_candidates, min_element(dt_candidates))
  /\ UNCHANGED <<configVars, coordinates, cell_volume, geomVars, stateVars,
                 node_velocity, cornerVars, cell_residual, savedVars,
                 soln_time, time_step_counter>>

----------------------------------------------------------------------------
\* evaluate_corner_coef: the loop over the wedges of corner cn, from
\* the zeroed Mpc[cn] and npc[cn]
RECURSIVE CornerWedges(_, _, _)
CornerWedges(acc, ws, zc) ==
  IF ws = <<>> THEN acc
  ELSE LET n == wedge_facet_normal[ws[1]]
           l == wedge_facet_area[ws[1]]
       IN  CornerWedges(
             [Mpc |-> outer_product(n, n, acc.Mpc, RMul(zc, l)),
              npc |-> Tuple([d \in 1..dims |-> RAdd(acc.npc[d], RMul(l, n[d]))])],
             Tail(ws), zc)

\* the corner coefficients added to the values of the previous pass
CornerCoefAccumulated(cn) ==
  CornerWedges([Mpc |-> corner_matrix[cn], npc |-> corner_normal[cn]],
               wedges_of_corner(cn),
               RMul(cell_density[mesh.corners[cn].cell],
                    cell_sound_speed[mesh.corners[cn].cell]))

CornerCoef(cn) ==
  LET cl == mesh.corners[cn].cell
      zc == RMul(cell_density[cl], cell_sound_speed[cl])
  IN  CornerWedges([Mpc |-> ZeroMat(dims), npc |-> ZeroVec(dims)],
                   wedges_of_corner(cn), zc)

evaluate_corner_coef ==
  /\ corner_matrix' = [cn \in Corners |-> CornerCoef(cn).Mpc]
  /\ corner_normal' = [cn \in Corners |-> CornerCoef(cn).npc]
  /\ UNCHANGED <<configVars, coordinates, cell_volume, geomVars, stateVars,
                 node_velocity, cell_residual, savedVars, timeVars, err>>

----------------------------------------------------------------------------
\* evaluate_nodal_state

\* the point matrix with the velocity contribution left out of rhs
RECURSIVE PointSystemPressureOnly(_, _)
PointSystemPressureOnly(acc, cns) ==
  IF cns = <<>> THEN acc
  ELSE PointSystemPressureOnly(
         [Mp |-> MAdd(acc.Mp, corner_matrix[cns[1]]),
          rhs |-> VAdd(acc.rhs, VScale(cell_pressure[mesh.corners[cns[1]].cell],
                                       corner_normal[cns[1]]))],
         Tail(cns))

\* build point matrix: the loop over the corners of a vertex
RECURSIVE PointSystem(_, _)
PointSystem(acc, cns) ==
  IF cns = <<>> THEN acc
  ELSE LET cn == cns[1]
           cl == mesh.corners[cn].cell
           pcl == cell_pressure[cl]
           uc == cell_velocity[cl]
           r1 == Tuple([d \in 1..dims |-> RAdd(acc.rhs[d], RMul(pcl, corner_normal[cn][d]))])
       IN  PointSystem([Mp |-> MAdd(acc.Mp, corner_matrix[cn]),
                        rhs |-> ax_plus_y(corner_matrix[cn], uc, r1)],
                       Tail(cns))

Mp(vt) == PointSystem([Mp |-> ZeroMat(dims), rhs |-> ZeroVec(dims)],
                      corners_of_vertex(vt)).Mp
rhs0(vt) == PointSystem([Mp |-> ZeroMat(dims), rhs |-> ZeroVec(dims)],
                        corners_of_vertex(vt)).rhs

\* the last tag with a prescribed velocity, 0 when there is none
vel_bc_last(vt) ==
  LET ts == tags_of_vertex(vt)
      hit == {i \in DOMAIN ts : has_prescribed_velocity(boundary_map[ts[i]])}
  IN  IF hit = {} THEN 0
      ELSE ts[CHOOSE i \in hit : \A j \in hit : i >= j]

\* std::find_if over the point tags: the first tag with a prescribed
\* velocity, 0 when there is none
vel_bc(vt) ==
  LET ts == tags_of_vertex(vt)
      hit == {i \in DOMAIN ts : has_prescribed_velocity(boundary_map[ts[i]])}
  IN  IF hit = {} THEN 0
      ELSE ts[CHOOSE i \in hit : \A j \in hit : i <= j]

\* one tag, the normals of all symmetry tags merged into the first tag
ApplyTagMerged(acc, w, tag) ==
  IF has_prescribed_pressure(boundary_map[tag])
  THEN [acc EXCEPT !.rhs = Tuple([d \in 1..dims |->
          RSub(acc.rhs[d],
               RMul(RMul(wedge_facet_area[w],
                         pressure(boundary_map[tag], wedge_facet_centroid[w], soln_time)),
                    wedge_facet_normal[w][d]))])]
  ELSE IF has_symmetry(boundary_map[tag])
  THEN [acc EXCEPT !.symmetry_normals =
          [t \in {1} |-> Tuple([d \in 1..dims |->
             RAdd(IF 1 \in DOMAIN acc.symmetry_normals
                  THEN acc.symmetry_normals[1][d] ELSE Zero,
                  RMul(wedge_facet_area[w], wedge_facet_normal[w][d]))])]]
  ELSE acc

\* one tag, the pressure taken at the vertex of the wedge
ApplyTagPressureAtVertex(acc, w, tag) ==
  IF has_prescribed_pressure(boundary_map[tag])
  THEN [acc EXCEPT !.rhs = Tuple([d \in 1..dims |->
          RSub(acc.rhs[d],
               RMul(RMul(wedge_facet_area[w],
                         pressure(boundary_map[tag], coordinates[mesh.wedges[w].vert],
                                  soln_time)),
                    wedge_facet_normal[w][d]))])]
  ELSE IF has_symmetry(boundary_map[tag])
  THEN [acc EXCEPT !.symmetry_normals =
          [t \in (DOMAIN acc.symmetry_normals) \cup {tag} |->
             Tuple([d \in 1..dims |->
               RAdd(IF t \in DOMAIN acc.symmetry_normals
                    THEN acc.symmetry_normals[t][d] ELSE Zero,
                    IF t = tag THEN RMul(wedge_facet_area[w], wedge_facet_normal[w][d])
                    ELSE Zero)])]]
  ELSE acc

\* one tag of the face of boundary wedge w: acc is the right-hand side and
\* the symmetry normals found so far
ApplyTag(acc, w, tag) ==
  LET b == boundary_map[tag]
      n == wedge_facet_normal[w]
      l == wedge_facet_area[w]
      X == wedge_facet_centroid[w]
  IN  IF has_prescribed_pressure(b)
      THEN LET fact == RMul(l, pressure(b, X, soln_time))
           IN  [acc EXCEPT !.rhs = Tuple([d \in 1..dims |->
                                      RSub(acc.rhs[d], RMul(fact, n[d]))])]
      ELSE IF has_symmetry(b)
      THEN IF tag \in DOMAIN acc.symmetry_normals
           THEN [acc EXCEPT !.symmetry_normals[tag] =
                   Tuple([d \in 1..dims |-> RAdd(acc.symmetry_normals[tag][d], RMul(l, n[d]))])]
           ELSE [acc EXCEPT !.symmetry_normals =
                   [t \in (DOMAIN acc.symmetry_normals) \cup {tag} |->
                      IF t = tag THEN Tuple([d \in 1..dims |-> RMul(l, n[d])])
                      ELSE acc.symmetry_normals[t]]]
      ELSE acc

RECURSIVE ApplyTags(_, _, _)
ApplyTags(acc, w, ts) ==
  IF ts = <<>> THEN acc ELSE ApplyTags(ApplyTag(acc, w, ts[1]), w, Tail(ts))

RECURSIVE ApplyWedges(_, _)
ApplyWedges(acc, ws) ==
  IF ws = <<>> THEN acc
  ELSE ApplyWedges(ApplyTags(acc, ws[1], tags_of_face(mesh.wedges[ws[1]].face)),
                   Tail(ws))

\* the right-hand side and the symmetry normals of a boundary vertex after
\* the loop over its boundary wedges
BoundarySystem(vt) ==
  ApplyWedges([rhs |-> rhs0(vt), symmetry_normals |-> <<>>],
              filter_boundary(wedges_of_vertex(vt)))

\* the grown system without the rows of the constraints
GrownSystemUpper(M, rhs, symmetry_normals) ==
  LET keys == SetToSeq(DOMAIN symmetry_normals)
      num_rows == dims + Len(keys)
  IN  [A |-> Tuple([i \in 1..num_rows |-> Tuple([j \in 1..num_rows |->
               IF i <= dims /\ j <= dims THEN M[i][j]
               ELSE IF i <= dims THEN symmetry_normals[keys[j - dims]][i]
               ELSE IF i = j THEN One
               ELSE Zero])]),
       b |-> Tuple([i \in 1..num_rows |-> IF i <= dims THEN rhs[i] ELSE Zero])]

\* the grown system: row-major A and b of num_rows = dims + num_symmetry
GrownSystem(M, rhs, symmetry_normals) ==
  LET keys == SetToSeq(DOMAIN symmetry_normals)
      num_rows == dims + Len(keys)
  IN  [A |-> Tuple([i \in 1..num_rows |-> Tuple([j \in 1..num_rows |->
               IF i <= dims /\ j <= dims THEN M[i][j]
               ELSE IF i <= dims THEN symmetry_normals[keys[j - dims]][i]
               ELSE IF j <= dims THEN symmetry_normals[keys[i - dims]][j]
               ELSE Zero])]),
       b |-> Tuple([i \in 1..num_rows |-> IF i <= dims THEN rhs[i] ELSE Zero])]

\* math::solve and ale::linalg::qr: the solution of the system, Singular
\* when there is none
solve(A, b) == LinSolve(A, b)
qr(A, b) == LinSolve(A, b)

\* the velocity the loop body computes for vertex vt (Singular when the
\* system of the vertex has no solution)
\* the first num_dimensions entries of the solution of the grown system
FirstDims(sol) == IF sol = Singular THEN Singular ELSE Tuple([d \in 1..dims |-> sol[d]])
SolveGrown(g) == FirstDims(qr(g.A, g.b))

\* the solve of a boundary vertex with the symmetry normals left out
SolveBoundaryUnconstrained(M, sys) == solve(M, sys.rhs)

\* the solve of a boundary vertex without prescribed velocity
SolveBoundary(M, sys) ==
  IF DOMAIN sys.symmetry_normals = {}
  THEN solve(M, sys.rhs)
  ELSE SolveGrown(GrownSystem(M, sys.rhs, sys.symmetry_normals))

\* the velocity of a vertex with the prescribed velocities left out
NodalVelocityAssembled(vt) ==
  IF vertex_is_boundary(vt)
  THEN SolveBoundary(Mp(vt), BoundarySystem(vt))
  ELSE solve(Mp(vt), rhs0(vt))

NodalVelocity(vt) ==
  IF vertex_is_boundary(vt)
  THEN IF vel_bc(vt) # 0
       THEN velocity(boundary_map[vel_bc(vt)], coordinates[vt], soln_time)
       ELSE SolveBoundary(Mp(vt), BoundarySystem(vt))
  ELSE solve(Mp(vt), rhs0(vt))

\* a vertex whose system has no solution keeps its velocity and ends the run
StoreNodalState(uv) ==
  /\ node_velocity' = [vt \in Vertices |->
                         IF uv[vt] = Singular THEN node_velocity[vt] ELSE uv[vt]]
  /\ err' = IF \A vt \in Vertices : uv[vt] # Singular THEN err ELSE "singular"

evaluate_nodal_state ==
  /\ StoreNodalState([vt \in Vertices |-> NodalVelocity(vt)])
  /\ UNCHANGED <<configVars, coordinates, cell_volume, geomVars, stateVars,
                 cornerVars, cell_residual, savedVars, timeVars>>

----------------------------------------------------------------------------
\* the subcell force without the impedance term
SubcellForcePressureOnly(cn) ==
  Tuple([d \in 1..dims |->
           RMul(cell_pressure[mesh.corners[cn].cell], corner_normal[cn][d])])

\* evaluate_forces: the subcell force of corner cn
SubcellForce(cn) ==
  LET cl == mesh.corners[cn].cell
      pt == mesh.corners[cn].vert
      pcl == cell_pressure[cl]
      uc == cell_velocity[cl]
      force == Tuple([d \in 1..dims |-> RMul(pcl, corner_normal[cn][d])])
      delta_u == Tuple([d \in 1..dims |-> RSub(uc[d], node_velocity[pt][d])])
  IN  ax_plus_y(corner_matrix[cn], delta_u, force)

\* the loop over the corners of a cell
RECURSIVE CellResidual(_, _)
CellResidual(dudt, cns) ==
  IF cns = <<>> THEN dudt
  ELSE LET cn == cns[1]
           pt == mesh.corners[cn].vert
       IN  CellResidual(
             compute_update(node_velocity[pt], SubcellForce(cn), corner_normal[cn], dudt),
             Tail(cns))

\* the forces added to the residual of the previous pass
evaluate_forces_accumulated ==
  /\ cell_residual' = [cl \in Cells |->
                         CellResidual(cell_residual[cl], corners_of_cell(cl))]
  /\ UNCHANGED <<configVars, coordinates, cell_volume, geomVars, stateVars,
                 node_velocity, cornerVars, savedVars, timeVars, err>>

evaluate_forces ==
  /\ cell_residual' = [cl \in Cells |->
                         CellResidual(ZeroFlux(dims), corners_of_cell(cl))]
  /\ UNCHANGED <<configVars, coordinates, cell_volume, geomVars, stateVars,
                 node_velocity, cornerVars, savedVars, timeVars, err>>

----------------------------------------------------------------------------
\* apply_update
\* the update of a cell as if its mass were one
UpdatedStateUnitMass(cell, fact) ==
  update_state_from_flux(One, cell_velocity[cell],
                         cell_internal_energy[cell], cell_residual[cell], fact)

UpdatedState(cell, fact) ==
  update_state_from_flux(cell_mass[cell], cell_velocity[cell],
                         cell_internal_energy[cell], cell_residual[cell], fact)

apply_update(coef) ==
  LET fact == RMul(coef, time_step)
  IN  /\ cell_velocity' = [c \in Cells |-> UpdatedState(c, fact).velocity]
      /\ cell_internal_energy' = [c \in Cells |-> UpdatedState(c, fact).internal_energy]
      \* update_volume( u, cell->volume() ): the volume of the geometric cache
      /\ cell_density' = [c \in Cells |-> RDiv(cell_mass[c], cell_volume[c])]
      /\ UNCHANGED <<configVars, coordinates, cell_volume, geomVars, cell_mass,
                     cell_pressure, cell_sound_speed, node_velocity, cornerVars,
                     cell_residual, savedVars, timeVars, err>>

----------------------------------------------------------------------------
\* mesh.update_geometry(): the geometric cache of the coordinates X
update_geometry(X) ==
  /\ cell_volume' = [c \in Cells |-> Volume(mesh, X, c)]
  /\ cell_centroid' = [c \in Cells |-> Centroid(mesh, X, c)]
  /\ cell_min_length' = [c \in Cells |-> min_length(mesh, X, c)]
  /\ wedge_facet_normal' = [w \in Wedges |-> FacetNormal(mesh, X, w)]
  /\ wedge_facet_area' = [w \in Wedges |-> FacetArea(mesh, X, w)]
  /\ wedge_facet_centroid' = [w \in Wedges |-> FacetCentroid(mesh, X, w)]

MovedCoordinates(fact) ==
  [vt \in Vertices |-> [d \in 1..dims |->
      RAdd(coordinates[vt][d], RMul(fact, node_velocity[vt][d]))]]

move_mesh(coef) ==
  LET fact == RMul(coef, time_step)
  IN  /\ coordinates' = MovedCoordinates(fact)
      /\ update_geometry(MovedCoordinates(fact))
      /\ UNCHANGED <<configVars, stateVars, node_velocity, cornerVars,
                     cell_residual, savedVars, timeVars, err>>

\* nothing saved
save_coordinates_skipped ==
  UNCHANGED <<configVars, coordinates, cell_volume, geomVars, stateVars,
              node_velocity, cornerVars, cell_residual, savedVars, timeVars, err>>

save_coordinates ==
  /\ node_coordinates' = [vt \in Vertices |-> coordinates[vt]]
  /\ UNCHANGED <<configVars, coordinates, cell_volume, geomVars, stateVars,
                 node_velocity, cornerVars, cell_residual, cell_velocity0,
                 cell_internal_energy0, timeVars, err>>

restore_coordinates ==
  /\ coordinates' = [vt \in Vertices |-> node_coordinates[vt]]
  /\ UNCHANGED <<configVars, cell_volume, geomVars, stateVars, node_velocity,
                 cornerVars, cell_residual, savedVars, timeVars, err>>

save_solution ==
  /\ cell_velocity0' = [c \in Cells |-> cell_velocity[c]]
  /\ cell_internal_energy0' = [c \in Cells |-> cell_internal_energy[c]]
  /\ UNCHANGED <<configVars, coordinates, cell_volume, geomVars, stateVars,
                 node_velocity, cornerVars, cell_residual, node_coordinates,
                 timeVars, err>>

\* the half-step state kept
restore_solution_kept ==
  UNCHANGED <<configVars, coordinates, cell_volume, geomVars, stateVars,
              node_velocity, cornerVars, cell_residual, savedVars, timeVars, err>>

restore_solution ==
  /\ cell_velocity' = [c \in Cells |-> cell_velocity0[c]]
  /\ cell_internal_energy' = [c \in Cells |-> cell_internal_energy0[c]]
  /\ UNCHANGED <<configVars, coordinates, cell_volume, geomVars, cell_mass,
                 cell_pressure, cell_density, cell_sound_speed, node_velocity,
                 cornerVars, cell_residual, savedVars, timeVars, err>>

(***************************************************************************)
(* Output and configuration.                                               *)
(***************************************************************************)
\* mesh::write_mesh: the file is written, or the writer fails and says so
write_mesh(name, ok) ==
  IF ok THEN files' = Append(files, name) /\ UNCHANGED log
  ELSE /\ log' = Append(log, [task |-> "write_mesh", entity |-> name.cnt, tags |-> {}])
       /\ UNCHANGED files

\* output with the counter of the mesh advanced by the writer
output_counting(prefix, postfix, output_freq) ==
  /\ IF output_freq < 1 THEN UNCHANGED <<files, log, time_step_counter>>
     ELSE IF time_step_counter % output_freq # 0
     THEN UNCHANGED <<files, log, time_step_counter>>
     ELSE /\ \E ok \in BOOLEAN :
               write_mesh([prefix |-> prefix, cnt |-> time_step_counter,
                           postfix |-> postfix], ok)
          /\ time_step_counter' = time_step_counter + 1
  /\ UNCHANGED <<configVars, coordinates, cell_volume, geomVars, stateVars,
                 node_velocity, cornerVars, cell_residual, savedVars,
                 time_step, soln_time, limit_string,
                 file, inputs, element, measured, err>>

\* output with a failure of the writer reported to the driver
output_fatal(prefix, postfix, output_freq) ==
  /\ IF output_freq < 1 THEN UNCHANGED <<files, log, err>>
     ELSE IF time_step_counter % output_freq # 0 THEN UNCHANGED <<files, log, err>>
     ELSE \E ok \in BOOLEAN :
            /\ write_mesh([prefix |-> prefix, cnt |-> time_step_counter,
                           postfix |-> postfix], ok)
            /\ err' = IF ok THEN err ELSE "write_mesh"
  /\ UNCHANGED <<solverVars, file, inputs, element, measured>>

\* the name is prefix, the counter and postfix; cnt is a copy of the counter
\* of the mesh, and the result of the writer is not looked at
output(prefix, postfix, output_freq) ==
  /\ IF output_freq < 1 THEN UNCHANGED <<files, log>>
     ELSE IF time_step_counter % output_freq # 0 THEN UNCHANGED <<files, log>>
     ELSE \E ok \in BOOLEAN :
            write_mesh([prefix |-> prefix, cnt |-> time_step_counter,
                        postfix |-> postfix], ok)
  /\ UNCHANGED <<solverVars, file, inputs, element, measured, err>>

\* inputs_t::load_lua that takes every eos type for an ideal gas
load_lua_any_eos(enable_lua) ==
  IF ~enable_lua
  THEN err' = "You need to link with lua" /\ UNCHANGED inputs
  ELSE inputs' = file.hydro /\ UNCHANGED err

\* inputs_t::load_lua: the six values are stored before the eos is looked at
load_lua(enable_lua) ==
  IF ~enable_lua
  THEN err' = "You need to link with lua" /\ UNCHANGED inputs
  ELSE IF file.eos_type = "ideal_gas"
  THEN inputs' = file.hydro /\ UNCHANGED err
  ELSE /\ inputs' = [file.hydro EXCEPT !.eos = inputs.eos]
       /\ err' = "Unknown eos type"

\* inputs_t::load
load(enable_lua) ==
  /\ IF file.ext = "lua" THEN load_lua(enable_lua)
     ELSE err' = "Unknown file extension" /\ UNCHANGED inputs
  /\ UNCHANGED <<solverVars, file, files, log, element, measured>>

----------------------------------------------------------------------------
\* One iteration of the parallel loop of each task: the body of the loop for
\* one entity, on the fields as the iterations done so far have left them.
corner_coef_iteration(cn) ==
  /\ corner_matrix' = [corner_matrix EXCEPT ![cn] = CornerCoef(cn).Mpc]
  /\ corner_normal' = [corner_normal EXCEPT ![cn] = CornerCoef(cn).npc]
  /\ UNCHANGED <<configVars, coordinates, cell_volume, geomVars, stateVars,
                 node_velocity, cell_residual, savedVars, timeVars, err>>

nodal_state_iteration(vt) ==
  /\ node_velocity' = IF NodalVelocity(vt) = Singular THEN node_velocity
                      ELSE [node_velocity EXCEPT ![vt] = NodalVelocity(vt)]
  /\ err' = IF NodalVelocity(vt) = Singular THEN "singular" ELSE err
  /\ UNCHANGED <<configVars, coordinates, cell_volume, geomVars, stateVars,
                 cornerVars, cell_residual, savedVars, timeVars>>

forces_iteration(cl) ==
  /\ cell_residual' = [cell_residual EXCEPT
                         ![cl] = CellResidual(ZeroFlux(dims), corners_of_cell(cl))]
  /\ UNCHANGED <<configVars, coordinates, cell_volume, geomVars, stateVars,
                 node_velocity, cornerVars, savedVars, timeVars, err>>

apply_update_iteration(cell, coef) ==
  /\ cell_velocity' = [cell_velocity EXCEPT
                         ![cell] = UpdatedState(cell, RMul(coef, time_step)).velocity]
  /\ cell_internal_energy' =
       [cell_internal_energy EXCEPT
          ![cell] = UpdatedState(cell, RMul(coef, time_step)).internal_energy]
  /\ cell_density' = [cell_density EXCEPT
                        ![cell] = RDiv(cell_mass[cell], cell_volume[cell])]
  /\ UNCHANGED <<configVars, coordinates, cell_volume, geomVars, cell_mass,
                 cell_pressure, cell_sound_speed, node_velocity, cornerVars,
                 cell_residual, savedVars, timeVars, err>>

\* the iteration of vertex vt that also moves the first vertex
move_mesh_iteration_shared(vt, coef) ==
  /\ coordinates' = [coordinates EXCEPT
                       ![vt] = MovedCoordinates(RMul(coef, time_step))[vt],
                       ![1] = MovedCoordinates(RMul(coef, time_step))[1]]
  /\ UNCHANGED <<configVars, cell_volume, geomVars, stateVars, node_velocity,
                 cornerVars, cell_residual, savedVars, timeVars, err>>

\* the geometry is updated after the loop
move_mesh_iteration(vt, coef) ==
  /\ coordinates' = [coordinates EXCEPT
                       ![vt] = MovedCoordinates(RMul(coef, time_step))[vt]]
  /\ UNCHANGED <<configVars, cell_volume, geomVars, stateVars, node_velocity,
                 cornerVars, cell_residual, savedVars, timeVars, err>>

save_coordinates_iteration(vt) ==
  /\ node_coordinates' = [node_coordinates EXCEPT ![vt] = coordinates[vt]]
  /\ UNCHANGED <<configVars, coordinates, cell_volume, geomVars, stateVars,
                 node_velocity, cornerVars, cell_residual, cell_velocity0,
                 cell_internal_energy0, timeVars, err>>

restore_coordinates_iteration(vt) ==
  /\ coordinates' = [coordinates EXCEPT ![vt] = node_coordinates[vt]]
  /\ UNCHANGED <<configVars, cell_volume, geomVars, stateVars, node_velocity,
                 cornerVars, cell_residual, savedVars, timeVars, err>>

save_solution_iteration(c) ==
  /\ cell_velocity0' = [cell_velocity0 EXCEPT ![c] = cell_velocity[c]]
  /\ cell_internal_energy0' = [cell_internal_energy0 EXCEPT ![c] = cell_internal_energy[c]]
  /\ UNCHANGED <<configVars, coordinates, cell_volume, geomVars, stateVars,
                 node_velocity, cornerVars, cell_residual, node_coordinates,
                 timeVars, err>>

restore_solution_iteration(c) ==
  /\ cell_velocity' = [cell_velocity EXCEPT ![c] = cell_velocity0[c]]
  /\ cell_internal_energy' = [cell_internal_energy EXCEPT ![c] = cell_internal_energy0[c]]
  /\ UNCHANGED <<configVars, coordinates, cell_volume, geomVars, cell_mass,
                 cell_pressure, cell_density, cell_sound_speed, node_velocity,
                 cornerVars, cell_residual, savedVars, timeVars, err>>

(***************************************************************************)
(* The driver: the task sequence of one predictor-corrector step, after    *)
(* the initial conditions.  pc is the position in Program; a task that     *)
(* fails ends the run.                                                     *)
(***************************************************************************)
Startup == <<"initial_conditions", "update_state_from_pressure">>

StepTasks ==
  <<"save_coordinates", "save_solution",
    "evaluate_corner_coef", "evaluate_nodal_state", "evaluate_forces",
    "evaluate_time_step",
    "apply_update_half", "move_mesh_half", "update_state_from_energy",
    "evaluate_corner_coef", "evaluate_nodal_state", "evaluate_forces",
    "restore_coordinates", "restore_solution",
    "apply_update_full", "move_mesh_full", "update_state_from_energy",
    "advance">>

\* first-order steps on a mesh that is not moved: the nodal solver, the
\* forces and the update, and the nodal solver and the forces of the state
\* that results
NodalTasks ==
  <<"evaluate_corner_coef", "evaluate_nodal_state", "evaluate_forces",
    "apply_update_full", "update_state_from_energy", "advance",
    "evaluate_corner_coef", "evaluate_nodal_state", "evaluate_forces">>

Program == Startup \o (IF dims = 1 THEN StepTasks ELSE NodalTasks)

Task == IF pc \in DOMAIN Program /\ err = "none" THEN Program[pc] ELSE "done"

\* every value of the state is representable within MaxInt
Representable ==
  /\ \A c \in Cells :
       /\ ~IsHuge(cell_volume[c]) /\ ~IsHuge(cell_min_length[c])
       /\ VecExact(cell_centroid[c]) /\ VecExact(cell_velocity[c])
       /\ ~IsHuge(cell_mass[c]) /\ ~IsHuge(cell_pressure[c])
       /\ ~IsHuge(cell_density[c]) /\ ~IsHuge(cell_internal_energy[c])
       /\ ~IsHuge(cell_sound_speed[c])
       /\ ~IsHuge(cell_residual[c].energy) /\ ~IsHuge(cell_residual[c].volume)
       /\ VecExact(cell_residual[c].momentum)
  /\ \A v \in Vertices : VecExact(coordinates[v]) /\ VecExact(node_velocity[v])
  /\ \A cn \in Corners : MatExact(corner_matrix[cn]) /\ VecExact(corner_normal[cn])
  /\ \A w \in Wedges :
       /\ VecExact(wedge_facet_normal[w]) /\ VecExact(wedge_facet_centroid[w])
       /\ ~IsHuge(wedge_facet_area[w])
  /\ ~IsHuge(time_step) /\ ~IsHuge(soln_time)

\* the next position: the step is repeated until the final time or the
\* step limit is reached
Continue ==
  /\ Representable'
  /\ UNCHANGED <<visited, auxVars>>
  /\ pc' = IF Program[pc] = "advance"
          THEN (IF time_step_counter' >= MaxSteps \/ RLe(final_time, soln_time')
                THEN pc + 1 ELSE Len(Startup) + 1)
          ELSE pc + 1

advance ==
  /\ soln_time' = RAdd(soln_time, time_step)
  /\ time_step_counter' = time_step_counter + 1
  /\ UNCHANGED <<configVars, coordinates, cell_volume, geomVars, stateVars,
                 node_velocity, cornerVars, cell_residual, savedVars,
                 time_step, limit_string, err>>

DoInitialConditions == Task = "initial_conditions" /\ initial_conditions /\ Continue
DoUpdateStateFromPressure ==
  Task = "update_state_from_pressure" /\ update_state_from_pressure /\ Continue
DoUpdateStateFromEnergy ==
  Task = "update_state_from_energy" /\ update_state_from_energy /\ Continue
DoSaveCoordinates == Task = "save_coordinates" /\ save_coordinates /\ Continue
DoSaveSolution == Task = "save_solution" /\ save_solution /\ Continue
DoRestoreCoordinates == Task = "restore_coordinates" /\ restore_coordinates /\ Continue
DoRestoreSolution == Task = "restore_solution" /\ restore_solution /\ Continue
DoEvaluateCornerCoef == Task = "evaluate_corner_coef" /\ evaluate_corner_coef /\ Continue
DoEvaluateNodalState == Task = "evaluate_nodal_state" /\ evaluate_nodal_state /\ Continue
DoEvaluateForces == Task = "evaluate_forces" /\ evaluate_forces /\ Continue
DoEvaluateTimeStep == Task = "evaluate_time_step" /\ evaluate_time_step /\ Continue
DoApplyUpdateHalf == Task = "apply_update_half" /\ apply_update(Half) /\ Continue
DoApplyUpdateFull == Task = "apply_update_full" /\ apply_update(One) /\ Continue
DoMoveMeshHalf == Task = "move_mesh_half" /\ move_mesh(Half) /\ Continue
DoMoveMeshFull == Task = "move_mesh_full" /\ move_mesh(One) /\ Continue
DoAdvance == Task = "advance" /\ advance /\ Continue

\* The tasks with a parallel loop, run one iteration at a time in any order.
MoveTasks == {"move_mesh_half", "move_mesh_full"}
VertexLoops ==
  {"evaluate_nodal_state", "save_coordinates", "restore_coordinates"} \cup MoveTasks
CellLoops ==
  {"evaluate_forces", "apply_update_half", "apply_update_full",
   "save_solution", "restore_solution"}
LoopTasks == {"evaluate_corner_coef"} \cup VertexLoops \cup CellLoops
LoopEntities(name) ==
  IF name = "evaluate_corner_coef" THEN Corners
  ELSE IF name \in VertexLoops THEN Vertices
  ELSE IF name \in CellLoops THEN Cells
  ELSE {}
Pending == LoopEntities(Task) \ visited

\* the iteration of entity i is done
Visit(i) ==
  visited' = visited \cup {i} /\ pc' = pc /\ Representable' /\ UNCHANGED auxVars

IterateCornerCoef ==
  Task = "evaluate_corner_coef" /\ \E cn \in Pending : corner_coef_iteration(cn) /\ Visit(cn)
IterateNodalState ==
  Task = "evaluate_nodal_state" /\ \E vt \in Pending : nodal_state_iteration(vt) /\ Visit(vt)
IterateForces ==
  Task = "evaluate_forces" /\ \E cl \in Pending : forces_iteration(cl) /\ Visit(cl)
IterateApplyUpdateHalf ==
  Task = "apply_update_half"
    /\ \E cl \in Pending : apply_update_iteration(cl, Half) /\ Visit(cl)
IterateApplyUpdateFull ==
  Task = "apply_update_full"
    /\ \E cl \in Pending : apply_update_iteration(cl, One) /\ Visit(cl)
IterateMoveMeshHalf ==
  Task = "move_mesh_half" /\ \E vt \in Pending : move_mesh_iteration(vt, Half) /\ Visit(vt)
IterateMoveMeshFull ==
  Task = "move_mesh_full" /\ \E vt \in Pending : move_mesh_iteration(vt, One) /\ Visit(vt)
IterateSaveCoordinates ==
  Task = "save_coordinates" /\ \E vt \in Pending : save_coordinates_iteration(vt) /\ Visit(vt)
IterateRestoreCoordinates ==
  Task = "restore_coordinates"
    /\ \E vt \in Pending : restore_coordinates_iteration(vt) /\ Visit(vt)
IterateSaveSolution ==
  Task = "save_solution" /\ \E c \in Pending : save_solution_iteration(c) /\ Visit(c)
IterateRestoreSolution ==
  Task = "restore_solution" /\ \E c \in Pending : restore_solution_iteration(c) /\ Visit(c)

\* the end of a loop; move_mesh updates the geometry after its loop
EndLoop ==
  /\ Task \in LoopTasks /\ Pending = {}
  /\ IF Task \in MoveTasks THEN update_geometry(coordinates)
     ELSE UNCHANGED <<cell_volume, geomVars>>
  /\ UNCHANGED <<configVars, coordinates, stateVars, node_velocity, cornerVars,
                 cell_residual, savedVars, timeVars, err>>
  /\ visited' = {}
  /\ UNCHANGED auxVars
  /\ Representable'
  /\ pc' = pc + 1

(***************************************************************************)
(* Initial states.                                                         *)
(***************************************************************************)
\* the vertices of the line at 0, 1, 3, 6, ...
LineCoordinates(n) == [v \in 1..(n + 1) |-> <<R(((v - 1) * v) \div 2)>>]

\* the two quadrilaterals: cell widths 1 and 1, height h, the upper row of
\* vertices shifted by s
QuadCoordinates(h, s) ==
  [v \in 1..6 |-> IF v <= 3 THEN <<R(v - 1), Zero>> ELSE <<R(v - 4 + s), R(h)>>]

\* no input file is read and nothing is written
UnsetInputs ==
  [prefix |-> "", postfix |-> "", output_freq |-> 0, CFL |-> Zero,
   final_time |-> Zero, max_steps |-> 0,
   eos |-> [gas_constant |-> Zero, specific_heat |-> Zero]]
NoFile ==
  /\ file = [ext |-> "", hydro |-> UnsetInputs, eos_type |-> ""]
  /\ inputs = UnsetInputs
  /\ files = <<>>
  /\ log = <<>>

\* no element is measured
Unmeasured ==
  [length |-> Zero, area |-> Zero, midpoint |-> <<>>, centroid |-> <<>>,
   min_length |-> Zero]
NoElement ==
  /\ element = [kind |-> "", dim |-> 0, verts |-> <<>>, ids |-> <<>>, points |-> <<>>,
                edges |-> <<>>, corners |-> <<>>]
  /\ measured = Unmeasured

\* the defaults of time_constants_t, and a choice that lets the step grow
DefaultTimeConstants == [accoustic |-> One, volume |-> One, growth |-> Zero]
TimeConstants ==
  {DefaultTimeConstants, [accoustic |-> Half, volume |-> Half, growth |-> R(2)]}

InitFields(m, X) ==
  /\ mesh = m
  /\ coordinates = X
  /\ cell_volume = [c \in m.cells |-> Volume(m, X, c)]
  /\ cell_centroid = [c \in m.cells |-> Centroid(m, X, c)]
  /\ cell_min_length = [c \in m.cells |-> min_length(m, X, c)]
  /\ wedge_facet_normal = [w \in DOMAIN m.wedges |-> FacetNormal(m, X, w)]
  /\ wedge_facet_area = [w \in DOMAIN m.wedges |-> FacetArea(m, X, w)]
  /\ wedge_facet_centroid = [w \in DOMAIN m.wedges |-> FacetCentroid(m, X, w)]
  /\ cell_mass = [c \in m.cells |-> Zero]
  /\ cell_pressure = [c \in m.cells |-> Zero]
  /\ cell_velocity = [c \in m.cells |-> ZeroVec(m.dims)]
  /\ cell_density = [c \in m.cells |-> Zero]
  /\ cell_internal_energy = [c \in m.cells |-> Zero]
  /\ cell_sound_speed = [c \in m.cells |-> Zero]
  /\ node_velocity = [v \in m.verts |-> ZeroVec(m.dims)]
  /\ corner_matrix = [cn \in DOMAIN m.corners |-> ZeroMat(m.dims)]
  /\ corner_normal = [cn \in DOMAIN m.corners |-> ZeroVec(m.dims)]
  /\ cell_residual = [c \in m.cells |-> ZeroFlux(m.dims)]
  /\ cell_velocity0 = [c \in m.cells |-> ZeroVec(m.dims)]
  /\ cell_internal_energy0 = [c \in m.cells |-> Zero]
  /\ node_coordinates = [v \in m.verts |-> ZeroVec(m.dims)]
  /\ time_step = One
  /\ soln_time = Zero
  /\ time_step_counter = 0
  /\ limit_string = ""
  /\ gamma = R(2)
  /\ final_time = R(4)
  /\ pc = 1
  /\ visited = {}
  /\ NoFile /\ NoElement
  /\ err = "none"

\* the line: tags on its two end faces
Init ==
  /\ InitFields(LineMesh(NumCells), LineCoordinates(NumCells))
  /\ \E l \in {{}, {1}}, r \in {{}, {1, 2}} :
       face_tags = [f \in 1..(NumCells + 1) |->
                      IF f = 1 THEN l ELSE IF f = NumCells + 1 THEN r ELSE {}]
  /\ boundary_map \in [Tags -> Conditions(1)]
  /\ ics \in IcsChoices(1, One)
  /\ cfl \in TimeConstants

Next ==
  \/ DoInitialConditions
  \/ DoUpdateStateFromPressure
  \/ DoSaveCoordinates
  \/ DoSaveSolution
  \/ DoEvaluateCornerCoef
  \/ DoEvaluateNodalState
  \/ DoEvaluateForces
  \/ DoEvaluateTimeStep
  \/ DoApplyUpdateHalf
  \/ DoMoveMeshHalf
  \/ DoUpdateStateFromEnergy
  \/ DoRestoreCoordinates
  \/ DoRestoreSolution
  \/ DoApplyUpdateFull
  \/ DoMoveMeshFull
  \/ DoAdvance

Spec == Init /\ [][Next]_vars

\* the two quadrilaterals: tags on the lower and the right faces
InitNodal ==
  /\ \E g \in {<<1, 0>>, <<4, 3>>} :
       /\ InitFields(QuadMesh, QuadCoordinates(g[1], g[2]))
       /\ ics \in IcsChoices(2, Frac(2 + g[2], 2))
  /\ \E a \in {{}, {1}}, b \in {{}, {1}, {2}}, c \in {{}, {2}, {1, 2}} :
       face_tags = [f \in 1..7 |->
                      IF f = 1 THEN a ELSE IF f = 5 THEN b
                      ELSE IF f = 6 THEN c ELSE {}]
  /\ boundary_map \in [Tags -> Conditions(2)]
  /\ boundary_map[2] # FreeBC(2)
  /\ cfl = DefaultTimeConstants

NextNodal ==
  \/ DoInitialConditions
  \/ DoUpdateStateFromPressure
  \/ DoEvaluateCornerCoef
  \/ DoEvaluateNodalState
  \/ DoEvaluateForces
  \/ DoApplyUpdateFull
  \/ DoUpdateStateFromEnergy
  \/ DoAdvance

SpecNodal == InitNodal /\ [][NextNodal]_vars

\* the two quadrilaterals with two tags on the right face and two
\* conditions that prescribe a velocity
InitPrecedence ==
  /\ InitFields(QuadMesh, QuadCoordinates(1, 0))
  /\ ics \in IcsChoices(2, One)
  /\ \E a \in {{}, {1}}, b \in {{}, {2}}, c \in {{2}, {1, 2}} :
       face_tags = [f \in 1..7 |->
                      IF f = 1 THEN a ELSE IF f = 5 THEN b
                      ELSE IF f = 6 THEN c ELSE {}]
  /\ boundary_map \in [Tags -> Conditions(2) \cup {FastVelocityBC(2)}]
  /\ cfl = DefaultTimeConstants

SpecPrecedence == InitPrecedence /\ [][NextNodal]_vars

\* the line at the entry of evaluate_time_step: sound speeds, volume rates,
\* time constants and a previous time step
InitStep ==
  /\ mesh = LineMesh(NumCells)
  /\ coordinates = LineCoordinates(NumCells)
  /\ cell_volume = [c \in mesh.cells |-> Volume(mesh, coordinates, c)]
  /\ cell_centroid = [c \in mesh.cells |-> Centroid(mesh, coordinates, c)]
  /\ cell_min_length = [c \in mesh.cells |-> min_length(mesh, coordinates, c)]
  /\ wedge_facet_normal = [w \in DOMAIN mesh.wedges |-> FacetNormal(mesh, coordinates, w)]
  /\ wedge_facet_area = [w \in DOMAIN mesh.wedges |-> FacetArea(mesh, coordinates, w)]
  /\ wedge_facet_centroid =
       [w \in DOMAIN mesh.wedges |-> FacetCentroid(mesh, coordinates, w)]
  /\ face_tags = [f \in 1..(NumCells + 1) |-> {}]
  /\ boundary_map = [t \in Tags |-> DefaultBC(1)]
  /\ ics = [x0 |-> One, left |-> <<One, <<Zero>>, One>>, right |-> <<One, <<Zero>>, One>>]
  /\ gamma = R(2)
  /\ final_time = R(4)
  /\ cfl \in TimeConstants \cup {[accoustic |-> One, volume |-> One, growth |-> One]}
  /\ cell_mass = cell_volume
  /\ cell_pressure = [c \in mesh.cells |-> One]
  /\ cell_velocity = [c \in mesh.cells |-> ZeroVec(1)]
  /\ cell_density = [c \in mesh.cells |-> One]
  /\ cell_internal_energy = [c \in mesh.cells |-> One]
  /\ cell_sound_speed \in [mesh.cells -> {Zero, One, R(2)}]
  /\ node_velocity = [v \in mesh.verts |-> ZeroVec(1)]
  /\ corner_matrix = [cn \in DOMAIN mesh.corners |-> ZeroMat(1)]
  /\ corner_normal = [cn \in DOMAIN mesh.corners |-> ZeroVec(1)]
  /\ \E dVdt \in [mesh.cells -> {Zero, One, R(-2)}] :
       cell_residual = [c \in mesh.cells |-> [ZeroFlux(1) EXCEPT !.volume = dVdt[c]]]
  /\ cell_velocity0 = cell_velocity
  /\ cell_internal_energy0 = cell_internal_energy
  /\ node_coordinates = coordinates
  /\ time_step \in {One, Half}
  /\ soln_time = Zero
  /\ time_step_counter = 0
  /\ limit_string = ""
  /\ pc = Len(Startup) + CHOOSE i \in DOMAIN StepTasks : StepTasks[i] = "evaluate_time_step"
  /\ visited = {}
  /\ NoFile /\ NoElement
  /\ err = "none"

NextStep == DoEvaluateTimeStep

SpecStep == InitStep /\ [][NextStep]_vars

\* the line with the step of the driver run loop iteration by loop iteration
InitLoops ==
  /\ Init
  /\ cfl # DefaultTimeConstants
  /\ boundary_map[2] = DefaultBC(1)

NextLoops ==
  \/ DoInitialConditions
  \/ DoUpdateStateFromPressure
  \/ DoEvaluateTimeStep
  \/ DoUpdateStateFromEnergy
  \/ DoAdvance
  \/ IterateCornerCoef
  \/ IterateNodalState
  \/ IterateForces
  \/ IterateApplyUpdateHalf
  \/ IterateApplyUpdateFull
  \/ IterateMoveMeshHalf
  \/ IterateMoveMeshFull
  \/ IterateSaveCoordinates
  \/ IterateRestoreCoordinates
  \/ IterateSaveSolution
  \/ IterateRestoreSolution
  \/ EndLoop

SpecLoops == InitLoops /\ [][NextLoops]_vars

\* save_coordinates, up to MaxMoves calls of move_mesh and
\* restore_coordinates, at positions after the program
RoundTripStart == Len(Program) + 1
RoundTripEnd == RoundTripStart + MaxMoves + 2

InitRoundTrip ==
  /\ mesh = LineMesh(NumCells)
  /\ coordinates = LineCoordinates(NumCells)
  /\ cell_volume = [c \in mesh.cells |-> Volume(mesh, coordinates, c)]
  /\ cell_centroid = [c \in mesh.cells |-> Centroid(mesh, coordinates, c)]
  /\ cell_min_length = [c \in mesh.cells |-> min_length(mesh, coordinates, c)]
  /\ wedge_facet_normal = [w \in DOMAIN mesh.wedges |-> FacetNormal(mesh, coordinates, w)]
  /\ wedge_facet_area = [w \in DOMAIN mesh.wedges |-> FacetArea(mesh, coordinates, w)]
  /\ wedge_facet_centroid =
       [w \in DOMAIN mesh.wedges |-> FacetCentroid(mesh, coordinates, w)]
  /\ face_tags = [f \in 1..(NumCells + 1) |-> {}]
  /\ boundary_map = [t \in Tags |-> DefaultBC(1)]
  /\ ics = [x0 |-> One, left |-> <<One, <<Zero>>, One>>, right |-> <<One, <<Zero>>, One>>]
  /\ gamma = R(2)
  /\ final_time = R(4)
  /\ cfl = DefaultTimeConstants
  /\ cell_mass = cell_volume
  /\ cell_pressure = [c \in mesh.cells |-> One]
  /\ cell_velocity = [c \in mesh.cells |-> ZeroVec(1)]
  /\ cell_density = [c \in mesh.cells |-> One]
  /\ cell_internal_energy = [c \in mesh.cells |-> One]
  /\ cell_sound_speed = [c \in mesh.cells |-> One]
  /\ node_velocity \in [mesh.verts -> {<<R(-1)>>, <<Zero>>, <<Half>>}]
  /\ corner_matrix = [cn \in DOMAIN mesh.corners |-> ZeroMat(1)]
  /\ corner_normal = [cn \in DOMAIN mesh.corners |-> ZeroVec(1)]
  /\ cell_residual = [c \in mesh.cells |-> ZeroFlux(1)]
  /\ cell_velocity0 = cell_velocity
  /\ cell_internal_energy0 = cell_internal_energy
  /\ node_coordinates = [v \in mesh.verts |-> ZeroVec(1)]
  /\ time_step \in {One, Frac(1, 3)}
  /\ soln_time = Zero
  /\ time_step_counter = 0
  /\ limit_string = ""
  /\ pc = RoundTripStart
  /\ visited = {}
  /\ NoFile /\ NoElement
  /\ err = "none"

RoundTripSave ==
  pc = RoundTripStart /\ save_coordinates /\ pc' = pc + 1 /\ UNCHANGED <<visited, auxVars>>
RoundTripMove ==
  /\ pc \in (RoundTripStart + 1)..(RoundTripStart + MaxMoves)
  /\ \E coef \in {Half, One} : move_mesh(coef)
  /\ Representable'
  /\ pc' = pc + 1
  /\ UNCHANGED <<visited, auxVars>>
RoundTripRestore ==
  /\ pc \in (RoundTripStart + 2)..(RoundTripStart + MaxMoves + 1)
  /\ restore_coordinates
  /\ pc' = RoundTripEnd
  /\ UNCHANGED <<visited, auxVars>>

NextRoundTrip == RoundTripSave \/ RoundTripMove \/ RoundTripRestore

SpecRoundTrip == InitRoundTrip /\ [][NextRoundTrip]_vars
(***************************************************************************)
(* Conservation.                                                           *)
(***************************************************************************)
\* no face carries a boundary tag: every vertex is solved as an interior one
NoTags == \A f \in DOMAIN face_tags : face_tags[f] = {}

\* the sum over the cells of M_c u_c, of M_c E_c
TotalMomentum ==
  VSum([c \in 1..Cardinality(Cells) |-> VScale(cell_mass[c], cell_velocity[c])], dims)
TotalEnergy ==
  RSum([c \in 1..Cardinality(Cells) |->
          RMul(cell_mass[c], total_energy(cell_internal_energy[c], cell_velocity[c]))])

\* the sum of the subcell forces of the corners of vertex v
VertexForce(v) ==
  VSum([i \in 1..Len(corners_of_vertex(v)) |-> SubcellForce(corners_of_vertex(v)[i])],
       dims)

\* the forces of every vertex balance (where the sum is representable)
ForcesBalance ==
  \A v \in Vertices : VecExact(VertexForce(v)) => VertexForce(v) = ZeroVec(dims)

\* the density of the initial conditions at the centroid of cell c of the
\* line, and the width of the cell, at the initial coordinates
InitialDensity(c) ==
  IF RLt(RMul(Half, RAdd(LineCoordinates(NumCells)[c][1],
                         LineCoordinates(NumCells)[c + 1][1])), ics.x0)
  THEN ics.left[1] ELSE ics.right[1]
InitialWidth(c) ==
  RSub(LineCoordinates(NumCells)[c + 1][1], LineCoordinates(NumCells)[c][1])

\* the velocity and the pressure of the initial conditions in cell c of the
\* line
InitialVelocity(c) ==
  IF RLt(RMul(Half, RAdd(LineCoordinates(NumCells)[c][1],
                         LineCoordinates(NumCells)[c + 1][1])), ics.x0)
  THEN ics.left[2] ELSE ics.right[2]
InitialPressure(c) ==
  IF RLt(RMul(Half, RAdd(LineCoordinates(NumCells)[c][1],
                         LineCoordinates(NumCells)[c + 1][1])), ics.x0)
  THEN ics.left[3] ELSE ics.right[3]

\* the total momentum and the total energy of the initial conditions:
\* E = p / ((gamma - 1) rho) + u.u / 2
InitialMomentum ==
  VSum([c \in 1..NumCells |->
          VScale(RMul(InitialDensity(c), InitialWidth(c)), InitialVelocity(c))], 1)
InitialEnergy ==
  RSum([c \in 1..NumCells |->
          RMul(RMul(InitialDensity(c), InitialWidth(c)),
               RAdd(RDiv(InitialPressure(c), RMul(RSub(gamma, One), InitialDensity(c))),
                    RMul(Half, dot_product(InitialVelocity(c), InitialVelocity(c)))))])

\* the task that has just run is name
AfterTask(name) == (pc - 1) \in DOMAIN Program /\ Program[pc - 1] = name

\* C1: momentum conservation.  Without boundary tags the total momentum is,
\* after every task of every step (apply_update at half and at full step
\* among them), the total momentum of the initial conditions, and after
\* evaluate_forces the subcell forces of the corners of every vertex sum to
\* zero.
MomentumConserved ==
  (NoTags /\ pc > Len(Startup))
    => /\ VecExact(TotalMomentum) => TotalMomentum = InitialMomentum
       /\ AfterTask("evaluate_forces") => ForcesBalance

\* the full update has run without tags and has changed the cell velocities
MomentumWitness ==
  /\ NoTags /\ err = "none" /\ AfterTask("apply_update_full")
  /\ cell_velocity # cell_velocity0
  /\ VecExact(TotalMomentum)
  /\ \E c \in Cells : cell_velocity[c] # ZeroVec(dims)

\* C2: energy conservation.  Without boundary tags the total energy is, after
\* every task of every step (apply_update at half and at full step among
\* them), the total energy of the initial conditions.
EnergyConserved ==
  (NoTags /\ pc > Len(Startup) /\ ~IsHuge(TotalEnergy))
    => TotalEnergy = InitialEnergy

\* the full update has run without tags and has changed the internal energies
EnergyWitness ==
  /\ NoTags /\ err = "none" /\ AfterTask("apply_update_full")
  /\ cell_internal_energy # cell_internal_energy0
  /\ ~IsHuge(TotalEnergy)

\* C3: mass conservation.  From initial_conditions on, through every task of
\* every step, the mass of each cell is the initial density times the initial
\* volume of the cell.
MassConserved ==
  pc > 1 => \A c \in Cells : cell_mass[c] = RMul(InitialDensity(c), InitialWidth(c))

\* the run has ended after a step that moved the mesh
MassWitness ==
  /\ Task = "done" /\ err = "none" /\ time_step_counter >= 1
  /\ \E c \in Cells : cell_volume[c] # InitialWidth(c)
  /\ \E c \in Cells : cell_mass[c] # InitialDensity(c)

(***************************************************************************)
(* The nodal solver.                                                       *)
(***************************************************************************)
\* sums of the values of a function over a finite set of integers
SeqAlong(f, s) == Tuple([i \in 1..Len(s) |-> f[s[i]]])
RSumSet(f) == RSum(SeqAlong(f, SetToSeq(DOMAIN f)))
VSumSet(f) == VSum(SeqAlong(f, SetToSeq(DOMAIN f)), dims)
MSumSet(f) == MSum(SeqAlong(f, SetToSeq(DOMAIN f)), dims)

\* the wedges of vertex v on tagged faces, the corners of vertex v
BoundaryWedgesAt(v) ==
  {w \in Wedges : mesh.wedges[w].vert = v /\ face_tags[mesh.wedges[w].face] # {}}
CornersAt(v) == {cn \in Corners : mesh.corners[cn].vert = v}

\* a tag of vertex v prescribes the velocity
HasVelocityTag(v) == \E t \in VertexTagSet(v) : boundary_map[t].hpv

\* the tags of the faces at v that act as symmetry planes: no prescribed
\* pressure, has_symmetry
SymmetryTagsAt(v) ==
  {t \in Tags : /\ ~boundary_map[t].hpp /\ boundary_map[t].hs
                /\ \E w \in BoundaryWedgesAt(v) : t \in face_tags[mesh.wedges[w].face]}

\* the sum of area * normal over the boundary wedges of v whose face
\* carries tag t
TagNormal(v, t) ==
  VSumSet([w \in {k \in BoundaryWedgesAt(v) : t \in face_tags[mesh.wedges[k].face]} |->
             VScale(wedge_facet_area[w], wedge_facet_normal[w])])

\* C4: symmetry enforcement.  After evaluate_nodal_state has solved every
\* vertex, at every vertex without prescribed velocity a finite nodal
\* velocity is orthogonal to the accumulated normal of every symmetry tag of
\* the faces at the vertex.
SymmetryEnforced ==
  (AfterTask("evaluate_nodal_state") /\ err = "none")
    => \A v \in {x \in Vertices : ~HasVelocityTag(x) /\ VecFinite(node_velocity[x])} :
         \A t \in SymmetryTagsAt(v) :
           \/ IsHuge(dot_product(TagNormal(v, t), node_velocity[v]))
           \/ dot_product(TagNormal(v, t), node_velocity[v]) = Zero

\* C4 as stated: the orthogonality at every vertex, a vertex with a
\* prescribed velocity included
SymmetryEnforcedEverywhere ==
  (AfterTask("evaluate_nodal_state") /\ err = "none")
    => \A v \in {x \in Vertices : VecFinite(node_velocity[x])} :
         \A t \in SymmetryTagsAt(v) :
           \/ IsHuge(dot_product(TagNormal(v, t), node_velocity[v]))
           \/ dot_product(TagNormal(v, t), node_velocity[v]) = Zero

\* a vertex with a symmetry tag moves along its plane
SymmetryWitness ==
  /\ AfterTask("evaluate_nodal_state") /\ err = "none"
  /\ \E v \in Vertices : /\ ~HasVelocityTag(v) /\ SymmetryTagsAt(v) # {}
                         /\ node_velocity[v] # ZeroVec(dims)
                         /\ \A t \in SymmetryTagsAt(v) :
                              dot_product(TagNormal(v, t), node_velocity[v]) = Zero

\* C5: symmetry constraints are accumulated per tag.  For a boundary vertex
\* without prescribed velocity, the normals evaluate_nodal_state collects are
\* keyed by the distinct symmetry tags of the boundary wedges of the vertex,
\* the normal of a tag is the sum of area * normal over the boundary wedges
\* whose face carries it, and the system grows by one row per tag.
SymmetryAccumulated ==
  Task = "evaluate_nodal_state"
    => \A v \in {x \in Vertices : vertex_is_boundary(x) /\ ~HasVelocityTag(x)} :
            /\ DOMAIN BoundarySystem(v).symmetry_normals = SymmetryTagsAt(v)
            /\ \A t \in SymmetryTagsAt(v) :
                 \/ ~VecExact(BoundarySystem(v).symmetry_normals[t])
                 \/ ~VecExact(TagNormal(v, t))
                 \/ BoundarySystem(v).symmetry_normals[t] = TagNormal(v, t)
            /\ Len(GrownSystem(Mp(v), BoundarySystem(v).rhs,
                               BoundarySystem(v).symmetry_normals).A)
                 = dims + Cardinality(SymmetryTagsAt(v))

\* one vertex has two symmetry tags, another has one tag on two wedges
AccumulatedWitness ==
  /\ Task = "evaluate_nodal_state"
  /\ \E v \in Vertices : /\ ~HasVelocityTag(v)
                         /\ Cardinality(SymmetryTagsAt(v)) = 2
                         /\ TagNormal(v, 1) # TagNormal(v, 2)
  /\ \E v \in Vertices, t \in Tags :
       /\ ~HasVelocityTag(v) /\ t \in SymmetryTagsAt(v)
       /\ Cardinality({w \in BoundaryWedgesAt(v) : t \in face_tags[mesh.wedges[w].face]}) = 2

\* C6: prescribed velocity.  After evaluate_nodal_state the velocity of a
\* vertex with a velocity tag is u0 + ux * x_v + ut * t of a velocity
\* condition of the vertex, at the coordinates of the vertex and the
\* solution time, whatever the cells and the other tags of the vertex are.
VelocityPrescribed ==
  (AfterTask("evaluate_nodal_state") /\ err = "none")
    => \A v \in {x \in Vertices : HasVelocityTag(x)} :
            \E t \in VertexTagSet(v) :
              /\ boundary_map[t].hpv
              /\ node_velocity[v] =
                   [d \in 1..dims |->
                      RAdd(boundary_map[t].u0[d],
                           RAdd(RMul(boundary_map[t].ux, coordinates[v][d]),
                                RMul(boundary_map[t].ut, soln_time)))]

\* at a later time a vertex carries a velocity tag and another tag that
\* prescribes none
VelocityWitness ==
  /\ AfterTask("evaluate_nodal_state") /\ err = "none" /\ soln_time # Zero
  /\ \E v \in Vertices : /\ HasVelocityTag(v)
                         /\ \E t \in VertexTagSet(v) : ~boundary_map[t].hpv
                         /\ coordinates[v] # ZeroVec(dims)
  /\ \E c \in Cells : cell_velocity[c] # ZeroVec(dims)

\* the pressure terms of vertex v: area * pressure(x_w, t) * normal for every
\* boundary wedge of v and every pressure tag of its face
PressureTerms(v) ==
  VSumSet([w \in BoundaryWedgesAt(v) |->
    VSumSet([t \in {k \in face_tags[mesh.wedges[w].face] : boundary_map[k].hpp} |->
      VScale(RMul(wedge_facet_area[w],
                  RAdd(boundary_map[t].p0,
                       RAdd(RMul(boundary_map[t].px, wedge_facet_centroid[w][1]),
                            RMul(boundary_map[t].pt, soln_time)))),
             wedge_facet_normal[w])])])

\* C7: prescribed pressure.  For a boundary vertex without prescribed
\* velocity the right-hand side after the loop over its boundary wedges is
\* the assembled one minus area * pressure(x_w, t) * normal for every
\* boundary wedge and every pressure tag of its face, the pressure taken at
\* the facet centroid and the solution time.
PressureSubtracted ==
  Task = "evaluate_nodal_state"
    => \A v \in {x \in Vertices : vertex_is_boundary(x) /\ ~HasVelocityTag(x)} :
         \/ ~VecExact(BoundarySystem(v).rhs)
         \/ ~VecExact(VSub(rhs0(v), PressureTerms(v)))
         \/ BoundarySystem(v).rhs = VSub(rhs0(v), PressureTerms(v))

\* at a later time a vertex has a wedge with a pressure tag
PressureWitness ==
  /\ Task = "evaluate_nodal_state" /\ soln_time # Zero
  /\ \E v \in Vertices : /\ vertex_is_boundary(v) /\ ~HasVelocityTag(v)
                         /\ VecExact(BoundarySystem(v).rhs)
                         /\ PressureTerms(v) # ZeroVec(dims)
                         /\ BoundarySystem(v).rhs # rhs0(v)

\* the sums over the corners of vertex v
SumM(v) == MSumSet([cn \in CornersAt(v) |-> corner_matrix[cn]])
SumB(v) ==
  VSumSet([cn \in CornersAt(v) |->
             VAdd(VScale(cell_pressure[mesh.corners[cn].cell], corner_normal[cn]),
                  MatVec(corner_matrix[cn], cell_velocity[mesh.corners[cn].cell]))])

\* C8: the per-vertex system.  After evaluate_nodal_state, at every vertex
\* without velocity and without symmetry condition (an interior vertex among
\* them) M_v u_v = b_v, with M_v the sum of M_cn and b_v the sum of
\* p_c N_cn + M_cn u_c over the corners of the vertex, less the pressure
\* terms of its boundary wedges.
PerVertexSystem ==
  /\ Task = "evaluate_nodal_state"
       => \A v \in Vertices :
            /\ ~MatExact(Mp(v)) \/ ~MatExact(SumM(v)) \/ Mp(v) = SumM(v)
            /\ ~VecExact(rhs0(v)) \/ ~VecExact(SumB(v)) \/ rhs0(v) = SumB(v)
  /\ (AfterTask("evaluate_nodal_state") /\ err = "none")
    => \A v \in {x \in Vertices : /\ ~HasVelocityTag(x) /\ SymmetryTagsAt(x) = {}
                                  /\ VecFinite(node_velocity[x])} :
         \/ ~VecExact(MatVec(SumM(v), node_velocity[v]))
         \/ ~VecExact(VSub(SumB(v), PressureTerms(v)))
         \/ MatVec(SumM(v), node_velocity[v]) = VSub(SumB(v), PressureTerms(v))

\* an interior vertex and a boundary vertex with a pressure tag have been
\* solved
PerVertexWitness ==
  /\ AfterTask("evaluate_nodal_state") /\ err = "none"
  /\ \E v \in Vertices : /\ ~vertex_is_boundary(v)
                         /\ node_velocity[v] # ZeroVec(dims)
                         /\ MatVec(SumM(v), node_velocity[v]) = SumB(v)
  /\ \E v \in Vertices : /\ vertex_is_boundary(v) /\ ~HasVelocityTag(v)
                         /\ SymmetryTagsAt(v) = {}
                         /\ PressureTerms(v) # ZeroVec(dims)

(***************************************************************************)
(* Corner coefficients and subcell forces.                                 *)
(***************************************************************************)
WedgesOf(cn) == {w \in Wedges : mesh.wedges[w].corner = cn}
Impedance(c) == RMul(cell_density[c], cell_sound_speed[c])

\* the sum of z * area * (n outer n) and of area * n over the wedges of cn
CornerMatrixOf(cn) ==
  Tuple([i \in 1..dims |-> Tuple([j \in 1..dims |->
    RSumSet([w \in WedgesOf(cn) |->
      RMul(RMul(Impedance(mesh.corners[cn].cell), wedge_facet_area[w]),
           RMul(wedge_facet_normal[w][i], wedge_facet_normal[w][j]))])])])
CornerNormalOf(cn) ==
  VSumSet([w \in WedgesOf(cn) |-> VScale(wedge_facet_area[w], wedge_facet_normal[w])])

\* C9: corner assembly.  After evaluate_corner_coef every corner matrix is
\* the sum of density * sound speed * area * (n outer n) and every corner
\* normal the sum of area * n over the wedges of the corner, whatever the
\* nodal velocities and the values of the previous pass were.
CornerAssembled ==
  AfterTask("evaluate_corner_coef")
    => \A cn \in Corners :
         /\ ~MatExact(CornerMatrixOf(cn)) \/ corner_matrix[cn] = CornerMatrixOf(cn)
         /\ ~VecExact(CornerNormalOf(cn)) \/ corner_normal[cn] = CornerNormalOf(cn)

\* the second pass has rebuilt the corner matrices of a moving node
CornerWitness ==
  /\ AfterTask("evaluate_corner_coef") /\ time_step_counter >= 1
  /\ \E cn \in Corners :
       /\ MatExact(CornerMatrixOf(cn)) /\ VecFinite(corner_matrix[cn][1])
       /\ corner_matrix[cn][1][1] # Zero
       /\ corner_normal[cn] # ZeroVec(dims)
       /\ node_velocity[mesh.corners[cn].vert] # ZeroVec(dims)
       /\ VecFinite(node_velocity[mesh.corners[cn].vert])

\* F_cn = p_c N_cn + M_cn (u_c - u_v)
ForceOf(cn) ==
  VAdd(VScale(cell_pressure[mesh.corners[cn].cell], corner_normal[cn]),
       MatVec(corner_matrix[cn],
              VSub(cell_velocity[mesh.corners[cn].cell],
                   node_velocity[mesh.corners[cn].vert])))
CornersIn(c) == {cn \in Corners : mesh.corners[cn].cell = c}

\* the residual of cell c from its corners
ResidualOf(c) ==
  [mass |-> Zero,
   momentum |-> VSub(ZeroVec(dims), VSumSet([cn \in CornersIn(c) |-> ForceOf(cn)])),
   energy |-> RNeg(RSumSet([cn \in CornersIn(c) |->
                 dot_product(ForceOf(cn), node_velocity[mesh.corners[cn].vert])])),
   volume |-> RSumSet([cn \in CornersIn(c) |->
                 dot_product(corner_normal[cn], node_velocity[mesh.corners[cn].vert])])]
FluxExact(f) ==
  /\ ~IsHuge(f.mass) /\ VecExact(f.momentum) /\ ~IsHuge(f.energy) /\ ~IsHuge(f.volume)

\* C10: subcell force and residual.  After evaluate_forces the residual of
\* every cell is mass rate 0, momentum rate minus the sum of F_cn, energy
\* rate minus the sum of F_cn . u_v and volume rate the sum of N_cn . u_v
\* over the corners of the cell, and evaluating the forces again on the
\* same inputs gives the residual again.
ResidualRebuilt ==
  AfterTask("evaluate_forces")
    => \A c \in Cells :
         /\ ~FluxExact(ResidualOf(c)) \/ cell_residual[c] = ResidualOf(c)
         /\ \/ ~FluxExact(CellResidual(ZeroFlux(dims), corners_of_cell(c)))
            \/ CellResidual(ZeroFlux(dims), corners_of_cell(c)) = cell_residual[c]

\* the second pass has replaced a residual that was not zero
ResidualWitness ==
  /\ AfterTask("evaluate_forces") /\ time_step_counter >= 1 /\ err = "none"
  /\ \E c \in Cells :
       /\ FluxExact(ResidualOf(c))
       /\ VecFinite(cell_residual[c].momentum) /\ IsFinite(cell_residual[c].energy)
       /\ cell_residual[c].momentum # ZeroVec(dims)
       /\ cell_residual[c].energy # Zero
       /\ cell_residual[c].volume # Zero

(***************************************************************************)
(* Time step control.                                                      *)
(***************************************************************************)
\* the smallest value of a set of comparable values
MinOfSet(S) == CHOOSE x \in S : \A y \in S : RLe(x, y)

\* the limits of spec 4.7 at the entry of evaluate_time_step: Inf is no limit
AcousticLimit ==
  RMul(cfl.accoustic,
       MinOfSet({RDiv(cell_min_length[c], cell_sound_speed[c]) : c \in Cells}))
ChangingCells == {c \in Cells : cell_residual[c].volume # Zero}
VolumetricLimit ==
  IF ChangingCells = {} THEN Inf
  ELSE RMul(cfl.volume,
            MinOfSet({RDiv(cell_volume[c], RAbs(cell_residual[c].volume)) :
                        c \in ChangingCells}))
GrowthLimit == RMul(RAdd(One, cfl.growth), time_step)

\* C11: step-size selection.  When evaluate_time_step returns, the time step
\* is one of the three candidates computed from the state at entry, the
\* growth candidate from the time step at entry, and no candidate is smaller.
StepIsMinimum ==
  [][(Task = "evaluate_time_step" /\ err' = "none")
       => /\ \E i \in DOMAIN dt_candidates : time_step' = dt_candidates[i]
          /\ \A i \in DOMAIN dt_candidates : RLe(time_step', dt_candidates[i])]_vars

\* the volumetric candidate, smaller than the two others, has been selected
StepWitness ==
  /\ AfterTask("evaluate_time_step") /\ err = "none"
  /\ limit_string = "volume" /\ IsFinite(time_step)
  /\ \E c \in Cells : cell_sound_speed[c] # Zero

\* C12: growth limit.  The growth candidate of evaluate_time_step is
\* (1 + CFL_g) times the time step at entry.
GrowthCandidate ==
  Task = "evaluate_time_step" => dt_candidates[3] = GrowthLimit

\* C13: acoustic limit.  The acoustic candidate of evaluate_time_step is
\* CFL_a times the minimum over the cells of min_length / sound_speed.
AcousticCandidate ==
  (/\ Task = "evaluate_time_step"
   /\ \A c \in Cells : IsFinite(cell_sound_speed[c])
   /\ ~IsHuge(AcousticLimit) /\ ~IsHuge(dt_candidates[1]))
    => dt_candidates[1] = AcousticLimit

\* C14: volumetric limit.  The volumetric candidate is CFL_v times the
\* minimum of V / |dV/dt| over the cells with dV/dt # 0, and
\* evaluate_time_step completes when every cell has dV/dt = 0.
VolumetricCandidate ==
  /\ (/\ Task = "evaluate_time_step"
      /\ ~IsHuge(VolumetricLimit) /\ ~IsHuge(dt_candidates[2]))
       => dt_candidates[2] = VolumetricLimit
  /\ (AfterTask("evaluate_time_step") /\ ChangingCells = {}) => err # "assert"

\* C15: limiter reporting.  The name evaluate_time_step returns is one of
\* the three, it names a candidate equal to the selected time step, no
\* candidate before it in the order acoustic, volumetric, growth equals the
\* time step, and the error of the default branch is not raised.
LimiterReported ==
  [][(Task = "evaluate_time_step" /\ err' # "assert")
       => /\ err' = "none"
          /\ \E i \in DOMAIN LimitNames :
               /\ limit_string' = LimitNames[i]
               /\ dt_candidates[i] = time_step'
               /\ \A j \in 1..(i - 1) : dt_candidates[j] # time_step']_vars

\* the acoustic and the volumetric candidate are equal and the smallest
LimiterWitness ==
  /\ AfterTask("evaluate_time_step") /\ err = "none"
  /\ limit_string = "accoustic" /\ IsFinite(time_step)
  /\ time_step = dt_candidates[2]

(***************************************************************************)
(* The predictor-corrector step.                                           *)
(***************************************************************************)
\* the geometric cache is the geometry of the current coordinates
GeometryCurrent ==
  /\ cell_volume = [c \in Cells |-> Volume(mesh, coordinates, c)]
  /\ cell_min_length = [c \in Cells |-> min_length(mesh, coordinates, c)]
  /\ wedge_facet_normal = [w \in Wedges |-> FacetNormal(mesh, coordinates, w)]
  /\ wedge_facet_area = [w \in Wedges |-> FacetArea(mesh, coordinates, w)]

\* the tasks that read the geometric cache
GeometryReaders ==
  {"evaluate_corner_coef", "evaluate_time_step", "apply_update_half", "apply_update_full"}

\* C16: geometric cache coherence.  In the driver sequence every task that
\* reads cached geometry starts with the cache of the current coordinates.
CacheCoherent == Task \in GeometryReaders => GeometryCurrent

\* the full-step update of the residual applied to the saved state of cell c
FullStepState(c) ==
  update_state_from_flux(cell_mass[c], cell_velocity0[c], cell_internal_energy0[c],
                         cell_residual[c], time_step)

VolumeAfterUpdate ==
  ((AfterTask("move_mesh_half") \/ AfterTask("move_mesh_full")) /\ err = "none")
    => \A c \in Cells :
         /\ cell_volume[c] = Volume(mesh, coordinates, c)
         /\ cell_density[c] = RDiv(cell_mass[c], Volume(mesh, coordinates, c))

\* C19: coordinate round trip.  After save_coordinates, one or more calls
\* of move_mesh and restore_coordinates every vertex has the coordinates it
\* had before the sequence.
CoordinateRoundTrip ==
  pc = RoundTripEnd => coordinates = LineCoordinates(NumCells)

\* the mesh was moved before the restore: the cache still holds the volumes
\* of the moved mesh
RoundTripWitness ==
  /\ pc = RoundTripEnd
  /\ \E c \in Cells : cell_volume[c] # Volume(mesh, coordinates, c)
  /\ \E v \in Vertices : node_velocity[v] # ZeroVec(dims)

(***************************************************************************)
(* The parallel loops.                                                     *)
(***************************************************************************)
\* the state the update of a loop iteration started from: the saved one
HalfStepState(c) ==
  update_state_from_flux(cell_mass[c], cell_velocity0[c], cell_internal_energy0[c],
                         cell_residual[c], RMul(Half, time_step))

\* the fields a complete loop has written are those of the task run as a
\* whole, whatever the order of the iterations was
LoopResult ==
  (Task \in LoopTasks /\ Pending = {})
    => /\ Task = "evaluate_corner_coef"
            => \A cn \in Corners : /\ corner_matrix[cn] = CornerCoef(cn).Mpc
                                   /\ corner_normal[cn] = CornerCoef(cn).npc
       /\ Task = "evaluate_nodal_state"
            => \A vt \in Vertices : node_velocity[vt] = NodalVelocity(vt)
       /\ Task = "evaluate_forces"
            => \A cl \in Cells :
                 cell_residual[cl] = CellResidual(ZeroFlux(dims), corners_of_cell(cl))
       /\ Task = "apply_update_half"
            => \A c \in Cells : /\ cell_velocity[c] = HalfStepState(c).velocity
                                /\ cell_internal_energy[c] = HalfStepState(c).internal_energy
       /\ Task = "apply_update_full"
            => \A c \in Cells : /\ cell_velocity[c] = FullStepState(c).velocity
                                /\ cell_internal_energy[c] = FullStepState(c).internal_energy
       /\ Task = "move_mesh_half"
            => \A v \in Vertices :
                 coordinates[v] = VAdd(node_coordinates[v],
                                       VScale(RMul(Half, time_step), node_velocity[v]))
       /\ Task = "move_mesh_full"
            => \A v \in Vertices :
                 coordinates[v] = VAdd(node_coordinates[v],
                                       VScale(RMul(One, time_step), node_velocity[v]))
       /\ Task \in {"save_coordinates", "restore_coordinates"}
            => node_coordinates = coordinates
       /\ Task \in {"save_solution", "restore_solution"}
            => /\ cell_velocity0 = cell_velocity
               /\ cell_internal_energy0 = cell_internal_energy

\* an iteration of entity i changes only the entries of i
OwnEntityOnly ==
  \A i \in visited' \ visited :
    /\ \A cn \in Corners :
         (Task # "evaluate_corner_coef" \/ cn # i)
           => /\ corner_matrix'[cn] = corner_matrix[cn]
              /\ corner_normal'[cn] = corner_normal[cn]
    /\ \A v \in Vertices :
         /\ (Task # "evaluate_nodal_state" \/ v # i) => node_velocity'[v] = node_velocity[v]
         /\ (Task \notin MoveTasks \cup {"restore_coordinates"} \/ v # i)
              => coordinates'[v] = coordinates[v]
         /\ (Task # "save_coordinates" \/ v # i) => node_coordinates'[v] = node_coordinates[v]
    /\ \A c \in Cells :
         /\ (Task # "evaluate_forces" \/ c # i) => cell_residual'[c] = cell_residual[c]
         /\ (Task \notin {"apply_update_half", "apply_update_full", "restore_solution"}
               \/ c # i)
              => /\ cell_velocity'[c] = cell_velocity[c]
                 /\ cell_internal_energy'[c] = cell_internal_energy[c]
         /\ (Task \notin {"apply_update_half", "apply_update_full"} \/ c # i)
              => cell_density'[c] = cell_density[c]
         /\ (Task # "save_solution" \/ c # i)
              => /\ cell_velocity0'[c] = cell_velocity0[c]
                 /\ cell_internal_energy0'[c] = cell_internal_energy0[c]

\* C20: single writer per phase.  In every parallel loop an iteration writes
\* the entries of its own entity only, and under every order of the
\* iterations the complete loop leaves the fields the task run as a whole
\* leaves.
SingleWriter == [](LoopResult) /\ [][OwnEntityOnly]_vars

\* the full-step update has handled the last cell before the first one
SingleWriterWitness ==
  /\ Task = "apply_update_full" /\ visited = {Cardinality(Cells)}
  /\ time_step_counter = 0 /\ err = "none"
  /\ \E c \in visited : cell_velocity[c] # cell_velocity0[c]
  /\ \E c \in Cells \ visited : cell_velocity[c] = cell_velocity0[c]

(***************************************************************************)
(* Specifications of the configuration and of the output.                  *)
(***************************************************************************)
\* the solver at rest on the line, the driver at position p
Parked(p) ==
  /\ mesh = LineMesh(NumCells)
  /\ coordinates = LineCoordinates(NumCells)
  /\ cell_volume = [c \in mesh.cells |-> Volume(mesh, coordinates, c)]
  /\ cell_centroid = [c \in mesh.cells |-> Centroid(mesh, coordinates, c)]
  /\ cell_min_length = [c \in mesh.cells |-> min_length(mesh, coordinates, c)]
  /\ wedge_facet_normal = [w \in DOMAIN mesh.wedges |-> FacetNormal(mesh, coordinates, w)]
  /\ wedge_facet_area = [w \in DOMAIN mesh.wedges |-> FacetArea(mesh, coordinates, w)]
  /\ wedge_facet_centroid =
       [w \in DOMAIN mesh.wedges |-> FacetCentroid(mesh, coordinates, w)]
  /\ face_tags = [f \in 1..(NumCells + 1) |-> {}]
  /\ boundary_map = [t \in Tags |-> DefaultBC(1)]
  /\ ics = [x0 |-> One, left |-> <<One, <<Zero>>, One>>, right |-> <<One, <<Zero>>, One>>]
  /\ gamma = R(2)
  /\ final_time = R(4)
  /\ cfl = DefaultTimeConstants
  /\ cell_mass = cell_volume
  /\ cell_pressure = [c \in mesh.cells |-> One]
  /\ cell_velocity = [c \in mesh.cells |-> ZeroVec(1)]
  /\ cell_density = [c \in mesh.cells |-> One]
  /\ cell_internal_energy = [c \in mesh.cells |-> One]
  /\ cell_sound_speed = [c \in mesh.cells |-> One]
  /\ node_velocity = [v \in mesh.verts |-> ZeroVec(1)]
  /\ corner_matrix = [cn \in DOMAIN mesh.corners |-> ZeroMat(1)]
  /\ corner_normal = [cn \in DOMAIN mesh.corners |-> ZeroVec(1)]
  /\ cell_residual = [c \in mesh.cells |-> ZeroFlux(1)]
  /\ cell_velocity0 = cell_velocity
  /\ cell_internal_energy0 = cell_internal_energy
  /\ node_coordinates = [v \in mesh.verts |-> ZeroVec(1)]
  /\ soln_time = Zero
  /\ time_step_counter = 0
  /\ limit_string = ""
  /\ pc = p
  /\ visited = {}
  /\ err = "none"

\* a run of output and counted steps, at positions after the round trip
OutputStart == RoundTripEnd + 1

InitOutput ==
  /\ Parked(OutputStart)
  /\ time_step \in {One, Half}
  /\ file = [ext |-> "", hydro |-> UnsetInputs, eos_type |-> ""]
  /\ \E f \in 0..3 :
       inputs = [UnsetInputs EXCEPT !.prefix = "sodz", !.postfix = "dat",
                                    !.output_freq = f]
  /\ files = <<>>
  /\ log = <<>>
  /\ NoElement

DoOutput ==
  /\ pc = OutputStart
  /\ output(inputs.prefix, inputs.postfix, inputs.output_freq)
  /\ pc' = OutputStart + 1
  /\ UNCHANGED visited

OutputStep ==
  /\ pc = OutputStart + 1
  /\ time_step_counter < MaxOutputSteps
  /\ advance
  /\ pc' = OutputStart
  /\ UNCHANGED <<visited, auxVars>>

NextOutput == DoOutput \/ OutputStep

SpecOutput == InitOutput /\ [][NextOutput]_vars

\* the measurement of one element, at positions after the output
MeasureStart == OutputStart + 2

Grid(xs, ys) == {<<R(x), R(y)>> : x \in xs, y \in ys}
Grid3(xs, ys, zs) == {<<R(x), R(y), R(z)>> : x \in xs, y \in ys, z \in zs}

\* the edges of a ring of n vertices, edge first in front
RingEdges(n, first) ==
  [i \in 1..n |-> <<((first + i - 2) % n) + 1, ((first + i - 1) % n) + 1>>]

\* the six edges of a tetrahedron, edge <<a, b>> in front
TetEdges(a, b) ==
  <<<<a, b>>>> \o SelectSeq(<<<<1, 2>>, <<1, 3>>, <<1, 4>>, <<2, 3>>, <<2, 4>>, <<3, 4>>>>,
                            LAMBDA e : e # <<a, b>>)

Elements ==
  {[kind |-> "2d_edge", dim |-> 1, verts |-> <<1, 2>>, ids |-> <<>>, points |-> <<a, b>>,
    edges |-> <<<<1, 2>>>>, corners |-> <<>>] :
     a \in Grid({0, 1}, {0, 1}), b \in Grid({0, 1, 2}, {0, 1, 2})}
  \cup
  {[kind |-> "3d_edge", dim |-> 1, verts |-> <<1, 2>>, ids |-> <<>>, points |-> <<a, b>>,
    edges |-> <<<<1, 2>>>>, corners |-> <<>>] :
     a \in Grid3({0, 1}, {0}, {0, 1}), b \in Grid3({0, 1, 2}, {0, 1}, {0, 1, 2})}
  \cup
  {[kind |-> "2d_cell", dim |-> 2, verts |-> <<1, 2, 3>>, ids |-> <<>>,
    points |-> <<a, b, c>>, edges |-> RingEdges(3, f), corners |-> <<>>] :
     a \in Grid({0}, {0, 1}), b \in Grid({0, 1, 2}, {0, 1}),
     c \in Grid({0, 1, 2}, {0, 1, 2}), f \in 1..3}
  \cup
  {[kind |-> "3d_face", dim |-> 2, verts |-> <<1, 2, 3>>, ids |-> <<>>,
    points |-> <<a, b, c>>, edges |-> RingEdges(3, f), corners |-> <<>>] :
     a \in Grid3({0}, {0}, {0, 1}), b \in Grid3({0, 1}, {0, 1}, {0, 1, 2}),
     c \in Grid3({0, 1}, {0, 1, 2}, {0, 1}), f \in 1..3}
  \cup
  {[kind |-> "3d_cell", dim |-> 3, verts |-> <<1, 2, 3, 4>>, ids |-> <<>>,
    points |-> <<a, b, c, d>>, edges |-> TetEdges(e[1], e[2]), corners |-> <<>>] :
     a \in Grid3({0}, {0}, {0}), b \in Grid3({1, 2}, {0}, {0, 1}),
     c \in Grid3({0, 1}, {1, 2}, {0}), d \in Grid3({0, 1}, {0, 1}, {1, 2}),
     e \in {<<1, 2>>, <<1, 4>>, <<3, 4>>}}

InitGeometry ==
  /\ Parked(MeasureStart)
  /\ time_step = One
  /\ NoFile
  /\ element \in Elements
  /\ measured = Unmeasured

Measured(m) ==
  /\ measured' = m
  /\ pc' = MeasureStart + 1
  /\ UNCHANGED <<solverVars, visited, file, inputs, files, log, element, err>>

MeasureEdge2d ==
  /\ pc = MeasureStart /\ element.kind = "2d_edge"
  /\ Measured([Unmeasured EXCEPT
                 !.length = length(element.points[1], element.points[2]),
                 !.area = edge_area(element.points[1], element.points[2]),
                 !.midpoint = midpoint(element.points[1], element.points[2]),
                 !.centroid = edge_centroid(element.points[1], element.points[2])])

MeasureEdge3d ==
  /\ pc = MeasureStart /\ element.kind = "3d_edge"
  /\ Measured([Unmeasured EXCEPT
                 !.length = length_3d(element.points[1], element.points[2]),
                 !.midpoint = midpoint(element.points[1], element.points[2])])

MeasureCell2d ==
  /\ pc = MeasureStart /\ element.kind = "2d_cell"
  /\ Measured([Unmeasured EXCEPT
                 !.min_length = cell_2d_min_length(element.points, element.edges)])

MeasureFace3d ==
  /\ pc = MeasureStart /\ element.kind = "3d_face"
  /\ Measured([Unmeasured EXCEPT
                 !.min_length = face_3d_min_length(element.points, element.edges)])

MeasureCell3d ==
  /\ pc = MeasureStart /\ element.kind = "3d_cell"
  /\ Measured([Unmeasured EXCEPT
                 !.min_length = cell_3d_min_length(element.points, element.edges)])

NextGeometry ==
  \/ MeasureEdge2d
  \/ MeasureEdge3d
  \/ MeasureCell2d
  \/ MeasureFace3d
  \/ MeasureCell3d

SpecGeometry == InitGeometry /\ [][NextGeometry]_vars

\* the entities of one quadrilateral, at positions after the measurement
BuildStart == MeasureStart + 2

Rings ==
  {r \in [1..4 -> 1..5] : \A i, j \in 1..4 : i # j => r[i] # r[j]}

InitQuadrilateral ==
  /\ Parked(BuildStart)
  /\ time_step = One
  /\ NoFile
  /\ \E r \in Rings, e \in {<<11, 12, 13, 14>>, <<24, 23, 22, 21>>}, d \in 0..3 :
       element = [kind |-> "quadrilateral", dim |-> d, verts |-> Tuple(r), ids |-> e,
                  points |-> <<>>, edges |-> <<>>, corners |-> <<>>]
  /\ measured = Unmeasured

\* the edges of the cell are created
CreateEntities ==
  /\ pc = BuildStart
  /\ element' = [element EXCEPT !.edges = create_entities(element.verts)]
  /\ pc' = BuildStart + 1
  /\ UNCHANGED <<solverVars, visited, file, inputs, files, log, measured, err>>

\* the bound entities of dimension element.dim are created: the corners,
\* or the error of the default case of the switch
CreateBoundEntities ==
  /\ pc = BuildStart + 1
  /\ IF element.dim = 1
     THEN /\ element' = [element EXCEPT
                           !.corners = create_bound_entities(element.verts, element.ids)]
          /\ UNCHANGED err
     ELSE err' = "Unknown bound entity type" /\ UNCHANGED element
  /\ pc' = BuildStart + 2
  /\ UNCHANGED <<solverVars, visited, file, inputs, files, log, measured>>

NextQuadrilateral == CreateEntities \/ CreateBoundEntities

SpecQuadrilateral == InitQuadrilateral /\ [][NextQuadrilateral]_vars

\* the load of an input file happens at position 0, before the first task
\* of the solver

InputFiles ==
  {[ext |-> e,
    hydro |-> [prefix |-> "sodz", postfix |-> "dat", output_freq |-> f, CFL |-> One,
               final_time |-> Frac(1, 5), max_steps |-> 10,
               eos |-> [gas_constant |-> Frac(7, 5), specific_heat |-> One]],
    eos_type |-> t] :
     e \in {"lua", "py", ""}, f \in 0..3, t \in {"ideal_gas", "tabular", "stiffened_gas"}}

InitLoad ==
  /\ Parked(0)
  /\ time_step = One
  /\ file \in InputFiles
  /\ inputs \in {UnsetInputs, [UnsetInputs EXCEPT !.prefix = "shock", !.max_steps = 1]}
  /\ files = <<>>
  /\ log = <<>>
  /\ NoElement

DoLoad ==
  /\ pc = 0
  /\ \E enable_lua \in BOOLEAN : load(enable_lua)
  /\ pc' = IF err' = "none" THEN 1 ELSE pc
  /\ UNCHANGED visited

NextLoad == DoLoad

SpecLoad == InitLoad /\ [][NextLoad]_vars

(***************************************************************************)
(* Termination of the driver.                                              *)
(***************************************************************************)
\* the step limit or the final time is reached
RunComplete == time_step_counter >= MaxSteps \/ RLe(final_time, soln_time)

\* C21: driver termination.  The step chosen by evaluate_time_step is
\* positive, so the solution time is positive after the first step; the
\* driver goes on while neither the step limit nor the final time is
\* reached and stops as soon as one of them is.
DriverTerminates ==
  /\ (AfterTask("evaluate_time_step") /\ err = "none") => RLt(Zero, time_step)
  /\ (time_step_counter >= 1 /\ err = "none") => RLt(Zero, soln_time)
  /\ (pc = Len(Program) + 1 /\ err = "none") => RunComplete
  /\ (Task \in {StepTasks[i] : i \in DOMAIN StepTasks}) => ~RunComplete

(***************************************************************************)
(* Output and configuration.                                               *)
(***************************************************************************)
\* the writer is due: the frequency is at least one and divides the counter
OutputDue ==
  IF inputs.output_freq < 1 THEN FALSE
  ELSE time_step_counter % inputs.output_freq = 0

\* C22: output cadence.  output invokes the writer exactly when output_freq
\* is at least 1 and the time-step counter of the mesh is a multiple of it,
\* never with output_freq = 0, and it leaves the counter of the mesh alone.
OutputCadence ==
  [][(pc = OutputStart)
       => /\ (Len(files') + Len(log') = Len(files) + Len(log) + 1) <=> OutputDue
          /\ (Len(files') + Len(log') = Len(files) + Len(log)) <=> ~OutputDue
          /\ (inputs.output_freq = 0) => (files' = files /\ log' = log)
          /\ time_step_counter' = time_step_counter]_vars

\* every second step: written at counters 0 and 2, not at 1 and 3
CadenceWitness ==
  /\ pc = OutputStart + 1 /\ inputs.output_freq = 2 /\ time_step_counter = 3
  /\ Len(files) = 2 /\ files[1].cnt = 0 /\ files[2].cnt = 2

UnsupportedRejected ==
  [][(pc = 0)
       => /\ (file.ext = "lua" /\ file.eos_type # "ideal_gas")
               => (err' # "none" /\ pc' = 0 /\ UNCHANGED solverVars)
          /\ (file.ext # "lua")
               => (/\ err' = "Unknown file extension" /\ inputs' = inputs
                   /\ pc' = 0 /\ UNCHANGED solverVars)]_vars

\* the eos type is rejected after the other values have been stored
RejectedWitness ==
  /\ pc = 0 /\ err = "Unknown eos type"
  /\ file.eos_type = "tabular"
  /\ inputs.prefix = file.hydro.prefix /\ inputs.eos # file.hydro.eos

(***************************************************************************)
(* Degenerate systems and the layout of the grown system.                  *)
(***************************************************************************)
\* C24: degenerate nodal system.  When the system of a vertex is singular,
\* evaluate_nodal_state ends in an error, and a diagnostic names the vertex
\* and its tag set.
DegenerateReported ==
  (AfterTask("evaluate_nodal_state") /\ err = "singular")
    => \E v \in Vertices :
         /\ NodalVelocity(v) = Singular
         /\ \E i \in DOMAIN log :
              log[i] = [task |-> "evaluate_nodal_state", entity |-> v,
                        tags |-> VertexTagSet(v)]

\* the vertices whose system is grown: on the boundary, no prescribed
\* velocity, at least one symmetry tag
GrownVertices ==
  {v \in Vertices : /\ vertex_is_boundary(v) /\ ~HasVelocityTag(v)
                    /\ SymmetryTagsAt(v) # {}}

\* the layout of the system g grown from M, rhs and the normals of keys
SaddlePoint(g, M, rhs, normals, keys) ==
  LET n == dims + Len(keys)
  IN  /\ Len(g.A) = n /\ Len(g.b) = n
      /\ \A i \in 1..n : Len(g.A[i]) = n
      /\ \A i, j \in 1..dims : g.A[i][j] = M[i][j]
      /\ \A i \in 1..dims : \A c \in 1..Len(keys) :
           /\ g.A[i][dims + c] = normals[keys[c]][i]
           /\ g.A[dims + c][i] = normals[keys[c]][i]
      /\ \A c, d \in 1..Len(keys) : g.A[dims + c][dims + d] = Zero
      /\ \A i \in 1..n : g.b[i] = IF i <= dims THEN rhs[i] ELSE Zero
      /\ (\A i, j \in 1..dims : M[i][j] = M[j][i])
           => \A i, j \in 1..n : g.A[i][j] = g.A[j][i]

\* the first dims entries of the solution of the grown system of vertex v
GrownVelocity(g) ==
  LET sol == LinSolve(g.A, g.b)
  IN  IF sol = Singular THEN Singular ELSE SubSeq(sol, 1, dims)

\* C28: saddle-point layout.  At a boundary vertex with k >= 1 symmetry
\* constraints the system given to the QR solver has D + k rows and columns:
\* M_v in the upper left block, the normals of the constraints, in the order
\* of their tags, as the last k columns of the first D rows and the last k
\* rows of the first D columns, zeros in the lower right block, and the
\* right-hand side b_v followed by k zeros.  It is symmetric when M_v is,
\* and the velocity stored for the vertex is the first D entries of its
\* solution.
SaddlePointLayout ==
  /\ Task = "evaluate_nodal_state"
       => \A v \in GrownVertices :
            SaddlePoint(GrownSystem(Mp(v), BoundarySystem(v).rhs,
                                    BoundarySystem(v).symmetry_normals),
                        Mp(v), BoundarySystem(v).rhs,
                        BoundarySystem(v).symmetry_normals,
                        SetToSeq(SymmetryTagsAt(v)))
  /\ (AfterTask("evaluate_nodal_state") /\ err = "none")
       => \A v \in GrownVertices :
            /\ Len(node_velocity[v]) = dims
            /\ node_velocity[v] =
                 GrownVelocity(GrownSystem(Mp(v), BoundarySystem(v).rhs,
                                           BoundarySystem(v).symmetry_normals))

\* a vertex with one constraint moves, another vertex has two constraints
LayoutWitness ==
  /\ AfterTask("evaluate_nodal_state") /\ err = "none"
  /\ \E v \in GrownVertices : /\ Cardinality(SymmetryTagsAt(v)) = 1
                              /\ node_velocity[v] # ZeroVec(dims)
                              /\ VecFinite(node_velocity[v])
  /\ \E v \in GrownVertices : Cardinality(SymmetryTagsAt(v)) = 2

(***************************************************************************)
(* The precedence of the boundary conditions.                              *)
(***************************************************************************)
\* the first tag of vertex v, in the order of its tags, that prescribes a
\* velocity
FirstVelocityTag(v) ==
  CHOOSE t \in VertexTagSet(v) :
    /\ boundary_map[t].hpv
    /\ \A u \in VertexTagSet(v) : boundary_map[u].hpv => t <= u

\* C30: precedence of the boundary conditions.  A vertex with a tag that
\* prescribes a velocity gets the velocity of the first such tag, whatever
\* its other tags prescribe.  At the other boundary vertices a tag with a
\* prescribed pressure contributes its pressure term and no constraint, also
\* when it reports symmetry; a tag without pressure and with symmetry is a
\* constraint, the condition that overrides nothing among them; a tag with
\* neither contributes nothing.
BoundaryPrecedence ==
  /\ (AfterTask("evaluate_nodal_state") /\ err = "none")
       => \A v \in {x \in Vertices : HasVelocityTag(x)} :
            node_velocity[v] = velocity(boundary_map[FirstVelocityTag(v)],
                                        coordinates[v], soln_time)
  /\ Task = "evaluate_nodal_state"
       => \A v \in {x \in Vertices : vertex_is_boundary(x) /\ ~HasVelocityTag(x)} :
            /\ \A t \in VertexTagSet(v) :
                 /\ boundary_map[t].hpp
                      => t \notin DOMAIN BoundarySystem(v).symmetry_normals
                 /\ (~boundary_map[t].hpp /\ boundary_map[t].hs)
                      => t \in DOMAIN BoundarySystem(v).symmetry_normals
                 /\ (~boundary_map[t].hpp /\ ~boundary_map[t].hs)
                      => t \notin DOMAIN BoundarySystem(v).symmetry_normals
                 /\ boundary_map[t] = DefaultBC(dims)
                      => t \in DOMAIN BoundarySystem(v).symmetry_normals
            /\ \/ ~VecExact(BoundarySystem(v).rhs)
               \/ ~VecExact(VSub(rhs0(v), PressureTerms(v)))
               \/ BoundarySystem(v).rhs = VSub(rhs0(v), PressureTerms(v))

\* a vertex with two tags that prescribe different velocities has the
\* velocity of the first
PrecedenceWitness ==
  /\ AfterTask("evaluate_nodal_state") /\ err = "none"
  /\ \E v \in Vertices :
       /\ VertexTagSet(v) = {1, 2}
       /\ boundary_map[1].hpv /\ boundary_map[2].hpv
       /\ node_velocity[v] = velocity(boundary_map[1], coordinates[v], soln_time)
       /\ node_velocity[v] # velocity(boundary_map[2], coordinates[v], soln_time)

(***************************************************************************)
(* Lengths of the elements.                                                *)
(***************************************************************************)
\* the Euclidean distances of the pairs of distinct vertices of the element
PairDistances ==
  {sqrt(Dist2(element.points[p[1]], element.points[p[2]])) :
     p \in {q \in (DOMAIN element.points) \X (DOMAIN element.points) : q[1] # q[2]}}

\* C26: minimum length.  min_length() of a 2D cell, a 3D face and a 3D cell
\* is the smallest Euclidean distance of two distinct vertices of the
\* element, whatever edge is the first of its edges.
MinimumLength ==
  (pc = MeasureStart + 1 /\ element.kind \in {"2d_cell", "3d_face", "3d_cell"})
    => measured.min_length = MinOfSet(PairDistances)

\* C27: edge length.  length() of an edge is the Euclidean distance of its
\* two end points in the dimension of the mesh; area() of a 2D edge is its
\* length and its centroid() is its midpoint(), the average of the end
\* points.
EdgeLength ==
  (pc = MeasureStart + 1 /\ element.kind \in {"2d_edge", "3d_edge"})
    => /\ measured.length = sqrt(Dist2(element.points[1], element.points[2]))
       /\ measured.midpoint = VScale(Half, VAdd(element.points[1], element.points[2]))
       /\ element.kind = "2d_edge"
            => /\ measured.area = measured.length
               /\ measured.centroid = measured.midpoint

(***************************************************************************)
(* The incidence tables of the quadrilateral.                              *)
(***************************************************************************)
\* C29: quadrilateral incidence tables.  create_entities gives the four
\* edges e_i = (v_i, v_(i+1 mod 4)) of two vertices each;
\* create_bound_entities gives for the corners four corners of three
\* entities each, corner i made of v_i, e_i and e_(i+3 mod 4), every vertex
\* in one corner and every edge in two; for another dimension it raises the
\* runtime error.
QuadrilateralTables ==
  /\ (pc > BuildStart)
       => /\ Len(element.edges) = 4
          /\ \A i \in 1..4 :
               element.edges[i] = <<element.verts[i], element.verts[(i % 4) + 1]>>
  /\ (pc = BuildStart + 2)
       => /\ (element.dim # 1) <=> (err = "Unknown bound entity type")
          /\ (element.dim # 1) => (element.corners = <<>>)
          /\ (element.dim = 1)
               => /\ Len(element.corners) = 4
                  /\ \A i \in 1..4 :
                       element.corners[i] =
                         <<element.verts[i], element.ids[i],
                           element.ids[((i + 2) % 4) + 1]>>
                  /\ \A i \in 1..4 :
                       Cardinality({k \in 1..4 :
                                      element.corners[k][1] = element.verts[i]}) = 1
                  /\ \A i \in 1..4 :
                       Cardinality({k \in 1..4 :
                                      element.ids[i] \in {element.corners[k][2],
                                                          element.corners[k][3]}}) = 2

\* the corners of a ring that is not in ascending order
TablesWitness ==
  /\ pc = BuildStart + 2 /\ err = "none"
  /\ element.verts = <<3, 1, 5, 2>> /\ element.ids = <<24, 23, 22, 21>>
  /\ element.corners[1] = <<3, 24, 21>>
  /\ element.edges[4] = <<2, 3>>

====
